---- MODULE Spec2Model ----
(***************************************************************************)
(* A model of the query-condition builder of genmai: the Condition chain   *)
(* (Where/And/Or/In/Like/Between/IsNull/IsNotNull/OrderBy/Limit/Offset and  *)
(* Join/LeftJoin ... On), Condition.build and the part of DB.Select that    *)
(* compiles the Conditions into one statement.                             *)
(*                                                                         *)
(* Representation.  An identifier (table or column name) is a sequence of  *)
(* one-character strings, so that Quote can double an embedded quote.  SQL  *)
(* text is a sequence of lexemes, each a record with a field text; the Go   *)
(* code joins its []string with blanks, so the statement is the lexemes in  *)
(* order.  A placeholder lexeme has a second field, binds, that records the *)
(* value the clause supplied for it; binds is not part of the text.  A      *)
(* bound value is a natural number standing for an opaque interface{};     *)
(* every call hands over values no other call has, so that a value in the   *)
(* argument list is recognisable.                                           *)
(* A *Condition is an index into conds (the heap of Conditions).            *)
(***************************************************************************)
EXTENDS Integers, Sequences, FiniteSets, TLC

\* Total number of parts held by all Conditions together, under each
\* specification.
MaxParts == 3
MaxNestParts == 4
MaxSelectParts == 3
MaxSortParts == 7

\* Longest argument list of one Select call.
MaxSelectArgs == 2

VARIABLES
    dialect,   \* DB.dialect: the name of the Dialect of the handle
    conds,     \* the Conditions: conds[c].parts and conds[c].tableName
    out,       \* what the last call returned
    tx,        \* DB.tx: 0 for nil, else the index in txs of the *sql.Tx
    txs,       \* the transactions begun by db.db.Begin(), each with its status
    m,         \* DB.m: 0 when unlocked, else the goroutine holding it
    pc,        \* where each goroutine is in Begin, Commit, Rollback or prepare
    local,     \* the local variable of each goroutine (the tx it begun or read)
    stmts      \* the statements the driver executed, in order

\* The transaction state of the handle and what the driver has done.
handle == <<tx, txs, m, pc, local, stmts>>

vars == <<dialect, conds, out, tx, txs, m, pc, local, stmts>>

\* The goroutines that share the handle.
Threads == {1, 2}

\* Where a goroutine is: in no call, or in the call op before the step at.
Idle == [op |-> "none", at |-> "idle"]
At(op, at) == [op |-> op, at |-> at]

\* The Condition objects: two, so that one can be passed to the other.
Conds == {1, 2}

Dialects == {"sqlite3", "mysql", "postgres"}

\* sort.Sort is not a stable sort, and which algorithm it runs on a short
\* slice depends on the Go toolchain that builds the program:
\* "insertion": insertion sort (Go 1.19 on, for a slice of at most 12).
\* "shell":     one ShellSort pass with gap 6, then insertion sort (Go 1.6 to 1.18).
SortImpls == {"insertion", "shell"}

-----------------------------------------------------------------------------
(* Dialect *)

\* A variant of Replace that takes old out.
RECURSIVE ReplaceDrop(_, _, _)
ReplaceDrop(s, old, new) ==
    IF s = <<>> THEN ""
    ELSE (IF Head(s) = old THEN "" ELSE Head(s)) \o ReplaceDrop(Tail(s), old, new)

RECURSIVE Replace(_, _, _)
Replace(s, old, new) ==
    IF s = <<>> THEN ""
    ELSE (IF Head(s) = old THEN new ELSE Head(s)) \o Replace(Tail(s), old, new)

SQLite3Quote(s) == "\"" \o Replace(s, "\"", "\"\"") \o "\""

\* The quote character of MySQL is the backquote, which cannot be written in
\* a string here: BackQuote stands for it.
BackQuote == "'"

MySQLQuote(s) == BackQuote \o Replace(s, BackQuote, BackQuote \o BackQuote) \o BackQuote

PostgresQuote(s) == "\"" \o Replace(s, "\"", "\"\"") \o "\""

Quote(d, s) ==
    CASE d = "sqlite3" -> SQLite3Quote(s)
      [] d = "mysql" -> MySQLQuote(s)
      [] d = "postgres" -> PostgresQuote(s)

SQLite3PlaceHolder(i) == "?"

MySQLPlaceHolder(i) == "?"

PostgresPlaceHolder(i) == "$" \o ToString(i + 1)

PlaceHolder(d, i) ==
    CASE d = "sqlite3" -> SQLite3PlaceHolder(i)
      [] d = "mysql" -> MySQLPlaceHolder(i)
      [] d = "postgres" -> PostgresPlaceHolder(i)

ColumnName(d, tname, cname) ==
    LET c == IF cname # <<"*">> THEN Quote(d, cname) ELSE "*"
    IN  IF tname = <<>> THEN c ELSE Quote(d, tname) \o "." \o c

-----------------------------------------------------------------------------
(* Clauses and parts *)

Where == "WHERE"
And == "AND"
Or == "OR"
OrderBy == "ORDER BY"
Limit == "LIMIT"
Offset == "OFFSET"
In == "IN"
Like == "LIKE"
Between == "BETWEEN"
Join == "JOIN"
LeftJoin == "LEFT JOIN"
IsNull == "IS NULL"
IsNotNull == "IS NOT NULL"

\* Clause.String(): the model names a Clause by its keyword.
ClauseString(clause) == clause

\* The Order constants.
ASC == <<"A", "S", "C">>
DESC == <<"D", "E", "S", "C">>

\* A Go string (a sequence of characters) as text.
Text(s) == Replace(s, "", "")

\* A lexeme of SQL text, and the lexeme of a placeholder emitted for value v.
Lx(s) == [text |-> s]
Holder(d, i, v) == [text |-> PlaceHolder(d, i), binds |-> v]

\* A variant of parts.Less that orders by descending priority.
LessDescending(p, q) == p.priority > q.priority

\* parts.Less
Less(p, q) == p.priority < q.priority

\* insertionSort of package sort: each element sinks while it is Less than
\* the one before it.
RECURSIVE Sink(_, _)
Sink(ps, j) ==
    IF j > 1 /\ Less(ps[j], ps[j - 1])
    THEN Sink([ps EXCEPT ![j] = ps[j - 1], ![j - 1] = ps[j]], j - 1)
    ELSE ps

RECURSIVE InsertionSortFrom(_, _)
InsertionSortFrom(ps, i) ==
    IF i > Len(ps) THEN ps ELSE InsertionSortFrom(Sink(ps, i), i + 1)

InsertionSort(ps) == InsertionSortFrom(ps, 2)

\* The ShellSort pass with gap 6 that Go 1.6 to 1.18 run before the insertion
\* sort on a slice of at most 12 elements.
RECURSIVE ShellPassFrom(_, _)
ShellPassFrom(ps, i) ==
    IF i > Len(ps) THEN ps
    ELSE ShellPassFrom(IF Less(ps[i], ps[i - 6])
                       THEN [ps EXCEPT ![i] = ps[i - 6], ![i - 6] = ps[i]]
                       ELSE ps, i + 1)

\* sort.Sort(c.parts) for a slice of at most 12 parts (a longer slice is
\* sorted by quicksort or pdqsort, which the model does not reach).
Sort(impl, ps) ==
    IF impl = "shell" THEN InsertionSort(ShellPassFrom(ps, 7)) ELSE InsertionSort(ps)

-----------------------------------------------------------------------------
(* Arguments of the variadic clause methods, by dynamic type *)

Str(s) == [t |-> "string", s |-> s]
Ord(o) == [t |-> "order", s |-> o]
Cnd(c) == [t |-> "cond", ref |-> c]
Tbl(name) == [t |-> "struct", table |-> name]
Val(v) == [t |-> "value", v |-> v]

\* fmt.Sprint of an argument, as far as the builder uses it.
Sprint(a) ==
    CASE a.t = "string" -> a.s
      [] a.t = "order" -> a.s
      [] a.t = "value" -> <<ToString(a.v)>>
      [] a.t = "struct" -> <<"{", "}">>
      [] a.t = "cond" -> <<"&">>

(* Expressions held by a part *)

ColE(table, name) == [k |-> "column", table |-> table, name |-> name]
ExprE(op, table, name, value) ==
    [k |-> "expr", op |-> op, column |-> [table |-> table, name |-> name], value |-> value]
OrderE(list) == [k |-> "orderBy", list |-> list]
ListE(items) == [k |-> "list", items |-> items]
BetweenE(from, to) == [k |-> "between", from |-> from, to |-> to]
CondE(c) == [k |-> "cond", ref |-> c]
JoinE(jc) == [k |-> "join", jc |-> jc]
ScalarE(v) == [k |-> "scalar", value |-> v]
NilE == [k |-> "nil"]

\* What a call that may panic yields: Panic, or Ok of the value it built.
Panic == [ok |-> FALSE]
Ok(x) == [ok |-> TRUE, val |-> x]

Part(priority, clause, expr) == [clause |-> clause, expr |-> expr, priority |-> priority]

\* Condition.appendQuery
appendQuery(ps, priority, clause, expr) == Append(ps, Part(priority, clause, expr))

\* Condition.appendQueryByCondOrExpr: Ok of the parts after the call, or Panic.
\* A struct argument is given by the table name of its type; any other
\* argument that is neither a string nor a *Condition is not a struct.
appendQueryByCondOrExpr(ps, order, clause, cond, args) ==
    LET as == <<IF cond.t = "struct" THEN Str(cond.table) ELSE cond>> \o args
    IN  IF cond.t \notin {"string", "cond", "struct"} THEN Panic
        ELSE CASE Len(as) = 1 ->
                    Ok(appendQuery(ps, order, clause,
                                   IF as[1].t = "cond" THEN CondE(as[1].ref)
                                   ELSE ColE(<<>>, as[1].s)))
               [] Len(as) = 2 ->
                    Ok(appendQuery(ps, order, clause, ColE(Sprint(as[1]), Sprint(as[2]))))
               [] Len(as) = 3 ->
                    Ok(appendQuery(ps, order, clause,
                                   ExprE(Sprint(as[2]), <<>>, Sprint(as[1]), as[3].v)))
               [] Len(as) = 4 ->
                    Ok(appendQuery(ps, order, clause,
                                   ExprE(Sprint(as[3]), Sprint(as[1]), Sprint(as[2]), as[4].v)))
               [] OTHER -> Panic

\* Condition.orderBy; a nil table is the empty argument list <<>>.
orderBy(table, col, order) ==
    [column |-> [table |-> IF table = <<>> THEN <<>> ELSE table[1].table,
                 name |-> Sprint(col)],
     order |-> Sprint(order)]

\* The loop of Condition.OrderBy over its arguments: Ok of the orderBy list,
\* or Panic when too few arguments are left.
RECURSIVE orderBys(_)
orderBys(order) ==
    IF order = <<>> THEN Ok(<<>>)
    ELSE LET o == Head(order)
             rest == Tail(order)
             n == IF o.t = "string" THEN 1 ELSE 2
             tail == IF Len(rest) < n THEN Panic ELSE orderBys(SubSeq(rest, n + 1, Len(rest)))
         IN  IF ~tail.ok THEN Panic
             ELSE IF n = 1 THEN Ok(<<orderBy(<<>>, o, rest[1])>> \o tail.val)
             ELSE Ok(<<orderBy(<<o>>, rest[1], rest[2])>> \o tail.val)

\* JoinCondition.join
join(joinClause, table) ==
    [tableName |-> table, clause |-> joinClause, leftTableName |-> <<>>,
     op |-> <<>>, left |-> <<>>, right |-> <<>>]

\* JoinCondition.On: Ok of the parts of the new Condition, or Panic.
On(jc, larg, args) ==
    LET isStr == larg.t = "string"
        short == ~isStr /\ (larg.t # "struct" \/ args = <<>>)
        lcolumn == IF isStr THEN larg.s ELSE args[1]
        as == IF isStr THEN args ELSE Tail(args)
        jc1 == IF isStr THEN jc ELSE [jc EXCEPT !.leftTableName = larg.table]
    IN  IF short THEN Panic
        ELSE IF Len(as) = 0
        THEN Ok(<<Part(0 - 100, jc.clause,
                       JoinE([jc1 EXCEPT !.left = lcolumn, !.op = <<"=">>, !.right = lcolumn]))>>)
        ELSE IF Len(as) = 2
        THEN Ok(<<Part(0 - 100, jc.clause,
                       JoinE([jc1 EXCEPT !.left = lcolumn, !.op = as[1], !.right = as[2]]))>>)
        ELSE Panic

-----------------------------------------------------------------------------
(* Condition.build *)

\* An argument of In is a value or a slice (or array) of values.
One(v) == [slice |-> FALSE, v |-> v]
Slice(vs) == [slice |-> TRUE, elems |-> vs]

\* flatten: every argument that is a sequence is replaced by its elements.
RECURSIVE flatten(_)
flatten(e) ==
    IF e = <<>> THEN <<>>
    ELSE (IF Head(e).slice THEN Head(e).elems ELSE <<Head(e).v>>) \o flatten(Tail(e))

\* strings.Join(holders, ", ") for the values e, the first holder numbered n:
\* the Go code appends it as one string, here it is the holders and the commas
\* between them, one lexeme each.
RECURSIVE inHolders(_, _, _)
inHolders(d, e, n) ==
    IF e = <<>> THEN <<>>
    ELSE <<Holder(d, n, Head(e))>>
         \o (IF Tail(e) = <<>> THEN <<>> ELSE <<Lx(",")>>)
         \o inHolders(d, Tail(e), n + 1)

\* The terms of an ORDER BY clause.
RECURSIVE orderTerms(_, _)
orderTerms(d, e) ==
    IF e = <<>> THEN <<>>
    ELSE <<Lx(ColumnName(d, Head(e).column.table, Head(e).column.name)), Lx(Text(Head(e).order))>>
         \o (IF Tail(e) = <<>> THEN <<>> ELSE <<Lx(",")>>)
         \o orderTerms(d, Tail(e))

\* What one part adds: its queries, its args and the placeholder counter
\* after it.  One operator for each case of the type switch of build.

\* A variant of buildClause that writes the keyword of every part.
buildClauseAlways(p, inner) == <<Lx(ClauseString(p.clause))>>

\* The clause keyword, left out for a Where of a nested Condition.
buildClause(p, inner) ==
    IF ~(inner /\ p.clause = Where) THEN <<Lx(ClauseString(p.clause))>> ELSE <<>>

\* case *expr
buildExpr(d, e, numHolders) ==
    [queries |-> <<Lx(ColumnName(d, e.column.table, e.column.name)),
                   Lx(Text(e.op)), Holder(d, numHolders, e.value)>>,
     args |-> <<e.value>>,
     numHolders |-> numHolders + 1]

\* case []orderBy
buildOrderBy(d, e, numHolders) ==
    [queries |-> orderTerms(d, e.list), args |-> <<>>, numHolders |-> numHolders]

\* case *column
buildColumn(d, e, numHolders) ==
    [queries |-> <<Lx(ColumnName(d, e.table, e.name))>>, args |-> <<>>,
     numHolders |-> numHolders]

\* A variant of buildList that writes one placeholder for the whole list.
buildListOneHolder(d, e, numHolders) ==
    LET f == flatten(e.items)
    IN  [queries |-> <<Lx("("), Holder(d, numHolders, Head(f)), Lx(")")>>,
         args |-> f,
         numHolders |-> numHolders + 1]

\* A variant of buildList that takes as many values as In had arguments.
buildListPerItem(d, e, numHolders) ==
    LET f == SubSeq(flatten(e.items), 1, Len(e.items))
    IN  [queries |-> <<Lx("(")>> \o inHolders(d, f, numHolders) \o <<Lx(")")>>,
         args |-> f,
         numHolders |-> numHolders + Len(f)]

\* case []interface{}
buildList(d, e, numHolders) ==
    LET f == flatten(e.items)
    IN  [queries |-> <<Lx("(")>> \o inHolders(d, f, numHolders) \o <<Lx(")")>>,
         args |-> f,
         numHolders |-> numHolders + Len(f)]

\* A variant of buildBetween that returns the two bounds in the other order.
buildBetweenSwapped(d, e, numHolders) ==
    [queries |-> <<Holder(d, numHolders, e.from), Lx("AND"),
                   Holder(d, numHolders + 1, e.to)>>,
     args |-> <<e.to, e.from>>,
     numHolders |-> numHolders + 2]

\* case *between
buildBetween(d, e, numHolders) ==
    [queries |-> <<Holder(d, numHolders, e.from), Lx("AND"),
                   Holder(d, numHolders + 1, e.to)>>,
     args |-> <<e.from, e.to>>,
     numHolders |-> numHolders + 2]

\* case *Condition, sub being what e.build(numHolders, true) returned
buildCond(sub, numHolders) ==
    [queries |-> <<Lx("(")>> \o sub.queries \o <<Lx(")")>>,
     args |-> sub.args,
     numHolders |-> numHolders]

\* case *JoinCondition, tableName being c.tableName
buildJoin(d, e, tableName, numHolders) ==
    LET leftTableName == IF e.jc.leftTableName = <<>> THEN tableName
                         ELSE e.jc.leftTableName
    IN  [queries |-> <<Lx(Quote(d, e.jc.tableName)), Lx("ON"),
                       Lx(ColumnName(d, leftTableName, e.jc.left)),
                       Lx(Text(e.jc.op)),
                       Lx(ColumnName(d, e.jc.tableName, e.jc.right))>>,
         args |-> <<>>,
         numHolders |-> numHolders]

\* case nil
buildNil(numHolders) ==
    [queries |-> <<>>, args |-> <<>>, numHolders |-> numHolders]

\* default
buildDefault(d, e, numHolders) ==
    [queries |-> <<Holder(d, numHolders, e.value)>>,
     args |-> <<e.value>>,
     numHolders |-> numHolders + 1]

\* build(numHolders, inner) of Condition c in heap h: the queries and args
\* it returns.  Every call first sorts the parts of its Condition; buildParts
\* is the loop over the sorted parts ps from index i on.
RECURSIVE build(_, _, _, _, _, _), buildParts(_, _, _, _, _, _, _, _)
buildParts(d, impl, h, c, ps, i, numHolders, inner) ==
    IF i > Len(ps) THEN [queries |-> <<>>, args |-> <<>>]
    ELSE
    LET p == ps[i]
        e == p.expr
        r == CASE e.k = "expr" -> buildExpr(d, e, numHolders)
               [] e.k = "orderBy" -> buildOrderBy(d, e, numHolders)
               [] e.k = "column" -> buildColumn(d, e, numHolders)
               [] e.k = "list" -> buildList(d, e, numHolders)
               [] e.k = "between" -> buildBetween(d, e, numHolders)
               [] e.k = "cond" ->
                    buildCond(build(d, impl, h, e.ref, numHolders, TRUE), numHolders)
               [] e.k = "join" -> buildJoin(d, e, h[c].tableName, numHolders)
               [] e.k = "nil" -> buildNil(numHolders)
               [] e.k = "scalar" -> buildDefault(d, e, numHolders)
        rest == buildParts(d, impl, h, c, ps, i + 1, r.numHolders, inner)
    IN  [queries |-> buildClause(p, inner) \o r.queries \o rest.queries,
         args |-> r.args \o rest.args]

build(d, impl, h, c, numHolders, inner) ==
    buildParts(d, impl, h, c, Sort(impl, h[c].parts), 1, numHolders, inner)

\* The Conditions a part list refers to, and those build reaches from c (it
\* calls build of every Condition nested in one it builds).
Nested(ps) == {ps[i].expr.ref : i \in {j \in DOMAIN ps : ps[j].expr.k = "cond"}}

RECURSIVE ReachIn(_, _, _)
ReachIn(h, seen, n) ==
    IF n = 0 THEN seen
    ELSE ReachIn(h, seen \cup UNION {Nested(h[x].parts) : x \in seen}, n - 1)

Reach(h, c) == ReachIn(h, {c}, Cardinality(Conds))

\* build never returns when a Condition is nested in itself.
Cyclic(h, c) == \E x \in Reach(h, c) : x \in UNION {Nested(h[y].parts) : y \in Reach(h, x)}

\* A variant of builtHeap in which build takes the first of the sorted parts
\* off every Condition it built.
builtHeapTail(impl, h, c) ==
    [x \in Conds |-> IF x \in Reach(h, c) THEN [h[x] EXCEPT !.parts = Tail(Sort(impl, @))] ELSE h[x]]

\* The heap after build of c: sort.Sort has sorted, in place, the parts of
\* every Condition that was built.
builtHeap(impl, h, c) ==
    [x \in Conds |-> IF x \in Reach(h, c) THEN [h[x] EXCEPT !.parts = Sort(impl, @)] ELSE h[x]]

-----------------------------------------------------------------------------
(* The state machine *)

\* Table and column names the calls draw from.
T1 == <<"t">>
T2 == <<"u">>
ColA == <<"a">>
ColB == <<"b">>
OpEq == <<"=">>

NoOut == [op |-> "none"]

TotalParts(h) == LET RECURSIVE Sum(_)
                     Sum(S) == IF S = {} THEN 0
                               ELSE LET x == CHOOSE y \in S : TRUE
                                    IN  Len(h[x].parts) + Sum(S \ {x})
                 IN  Sum(Conds)

\* A Condition exists once db.Where, db.OrderBy, db.Limit, db.Offset or On has
\* made it; conds[c] with no part is a Condition not made yet.
Exists(c) == conds[c].parts # <<>>
Room(max) == TotalParts(conds) < max

\* A handle of one of the dialects ds, and no Condition made yet.
Init(ds) ==
    /\ dialect \in ds
    /\ conds = [c \in Conds |-> [parts |-> <<>>, tableName |-> <<>>]]
    /\ out = NoOut
    /\ tx = 0
    /\ txs = <<>>
    /\ m = 0
    /\ pc = [t \in Threads |-> Idle]
    /\ local = [t \in Threads |-> 0]
    /\ stmts = <<>>

\* The i-th value handed to a call on Condition c: a value no earlier call
\* was given (a call takes at most two, a Condition holds fewer than fifty
\* parts).
NewVal(c, i) == 100 * c + 2 * Len(conds[c].parts) + i

\* The argument lists Where/And/Or are called with, by shape: a column, a
\* table and a column, both with an operator and a new value, or a
\* Condition that exists; and, of the lists the documentation does not
\* have, a column and an operator without a value, and five arguments.
CondArgs(c, shapes, refs) ==
    (IF "colop" \in shapes THEN {<<Str(ColB), Str(OpEq)>>} ELSE {})
    \cup (IF "five" \in shapes
          THEN {<<Tbl(T2), Str(ColA), Str(OpEq), Val(NewVal(c, 1)), Val(NewVal(c, 2))>>}
          ELSE {})
    \cup
    (IF "col" \in shapes THEN {<<Str(ColA)>>} ELSE {})
    \cup (IF "tcol" \in shapes THEN {<<Tbl(T2), Str(ColB)>>} ELSE {})
    \cup (IF "expr" \in shapes THEN {<<Str(ColB), Str(OpEq), Val(NewVal(c, 1))>>} ELSE {})
    \cup (IF "texpr" \in shapes
          THEN {<<Tbl(T2), Str(ColA), Str(OpEq), Val(NewVal(c, 1))>>} ELSE {})
    \cup (IF "cond" \in shapes THEN {<<Cnd(x)>> : x \in {y \in refs : Exists(y)}} ELSE {})

\* c.Where / c.And / c.Or (db.Where when c does not exist yet).
CallCondOrExpr(c, priority, clause, as) ==
    LET r == appendQueryByCondOrExpr(conds[c].parts, priority, clause, Head(as), Tail(as))
    IN  IF ~r.ok
        THEN /\ out' = [op |-> "panic"]
             /\ UNCHANGED conds
        ELSE /\ conds' = [conds EXCEPT ![c].parts = r.val]
             /\ out' = NoOut

\* A call of appendQuery with expression e.
CallAppend(c, priority, clause, e) ==
    /\ conds' = [conds EXCEPT ![c].parts = appendQuery(@, priority, clause, e)]
    /\ out' = NoOut

CondWhere(c, max, shapes, refs) ==
    /\ Room(max)
    /\ \E as \in CondArgs(c, shapes, refs) : CallCondOrExpr(c, 0, Where, as)
    /\ UNCHANGED <<dialect, handle>>

CondAnd(c, max, shapes, refs) ==
    /\ Room(max) /\ Exists(c)
    /\ \E as \in CondArgs(c, shapes, refs) : CallCondOrExpr(c, 100, And, as)
    /\ UNCHANGED <<dialect, handle>>

CondOr(c, max, shapes, refs) ==
    /\ Room(max) /\ Exists(c)
    /\ \E as \in CondArgs(c, shapes, refs) : CallCondOrExpr(c, 100, Or, as)
    /\ UNCHANGED <<dialect, handle>>

\* The argument lists of In: n values ("values"), or one slice or array of
\* n values ("slice").
InArgs(c, n, forms) ==
    (IF "values" \in forms THEN {[i \in 1..n |-> One(NewVal(c, i))]} ELSE {})
    \cup (IF "slice" \in forms THEN {<<Slice([i \in 1..n |-> NewVal(c, i)])>>} ELSE {})

CondIn(c, max, ns, forms) ==
    /\ Room(max) /\ Exists(c)
    /\ \E n \in ns : \E items \in InArgs(c, n, forms) :
          CallAppend(c, 100, In, ListE(items))
    /\ UNCHANGED <<dialect, handle>>

CondLike(c, max) ==
    /\ Room(max) /\ Exists(c)
    /\ CallAppend(c, 100, Like, ScalarE(NewVal(c, 1)))
    /\ UNCHANGED <<dialect, handle>>

CondBetween(c, max) ==
    /\ Room(max) /\ Exists(c)
    /\ CallAppend(c, 100, Between, BetweenE(NewVal(c, 1), NewVal(c, 2)))
    /\ UNCHANGED <<dialect, handle>>

CondIsNull(c, max) ==
    /\ Room(max) /\ Exists(c)
    /\ CallAppend(c, 100, IsNull, NilE)
    /\ UNCHANGED <<dialect, handle>>

CondIsNotNull(c, max) ==
    /\ Room(max) /\ Exists(c)
    /\ CallAppend(c, 100, IsNotNull, NilE)
    /\ UNCHANGED <<dialect, handle>>

CondOrderBy(c, max, argss) ==
    /\ Room(max)
    /\ \E as \in argss :
          LET r == orderBys(as)
          IN  IF ~r.ok
              THEN out' = [op |-> "panic"] /\ UNCHANGED conds
              ELSE CallAppend(c, 300, OrderBy, OrderE(r.val))
    /\ UNCHANGED <<dialect, handle>>

CondLimit(c, max) ==
    /\ Room(max)
    /\ CallAppend(c, 500, Limit, ScalarE(NewVal(c, 1)))
    /\ UNCHANGED <<dialect, handle>>

CondOffset(c, max) ==
    /\ Room(max)
    /\ CallAppend(c, 700, Offset, ScalarE(NewVal(c, 1)))
    /\ UNCHANGED <<dialect, handle>>

\* db.Join(table).On(...) and db.LeftJoin(table).On(...): a new Condition.
\* The arguments after the first are strings.
JoinOn(c, max, clauses, argss) ==
    /\ Room(max) /\ ~Exists(c)
    /\ \E clause \in clauses, as \in argss :
          LET r == On(join(clause, T2), Head(as), [i \in 1..(Len(as) - 1) |-> as[i + 1].s])
          IN  IF ~r.ok
              THEN out' = [op |-> "panic"] /\ UNCHANGED conds
              ELSE out' = NoOut /\ conds' = [conds EXCEPT ![c].parts = r.val]
    /\ UNCHANGED <<dialect, handle>>

\* c.build(0, false)
Build(c) ==
    /\ Exists(c)
    /\ IF Cyclic(conds, c)
       THEN /\ out' = [op |-> "overflow"]
            /\ UNCHANGED conds
       ELSE \E impl \in SortImpls :
            /\ out' = [op |-> "build", cond |-> c] @@ build(dialect, impl, conds, c, 0, FALSE)
            /\ conds' = builtHeap(impl, conds, c)
    /\ UNCHANGED <<dialect, handle>>

\* DB.classify for an argument list of Conditions: each is given the table name.
classify(h, tableName, args) ==
    [column |-> ColumnName(dialect, tableName, <<"*">>),
     from |-> tableName,
     conditions |-> args,
     heap |-> [x \in Conds |-> IF \E i \in DOMAIN args : args[i] = x
                               THEN [h[x] EXCEPT !.tableName = tableName] ELSE h[x]]]

\* The loop of DB.Select over the Conditions cs: each is built from
\* placeholder 0 and its queries and args are appended.
RECURSIVE selectBuild(_, _, _, _)
selectBuild(d, impl, h, cs) ==
    IF cs = <<>> THEN [queries |-> <<>>, args |-> <<>>, heap |-> h]
    ELSE LET q == build(d, impl, h, Head(cs), 0, FALSE)
             rest == selectBuild(d, impl, builtHeap(impl, h, Head(cs)), Tail(cs))
         IN  [queries |-> q.queries \o rest.queries, args |-> q.args \o rest.args,
              heap |-> rest.heap]

\* db.Select(&[]T1{}, cs...): the statement text and the values handed to
\* the driver.
Select(cs) ==
    /\ \A i \in DOMAIN cs : Exists(cs[i])
    /\ LET k == classify(conds, T1, cs)
       IN  IF \E i \in DOMAIN cs : Cyclic(conds, cs[i])
           THEN /\ out' = [op |-> "overflow"]
                /\ UNCHANGED conds
           ELSE \E impl \in SortImpls :
                LET b == selectBuild(dialect, impl, k.heap, k.conditions)
                IN  /\ out' = [op |-> "select",
                               queries |-> <<Lx("SELECT"), Lx(k.column), Lx("FROM"),
                                             Lx(Quote(dialect, k.from))>> \o b.queries,
                               args |-> b.args]
                    /\ conds' = b.heap
    /\ UNCHANGED <<dialect, handle>>

-----------------------------------------------------------------------------
(* Spec: every clause method on two Conditions, the second of which can be  *)
(* passed to Where and And.  MySQL differs from SQLite3 in the quote only   *)
(* and is left to the other specifications.                                *)

OrderByArgs == {<<Tbl(T2), Str(ColB), Ord(DESC), Str(ColA), Ord(ASC)>>}

OnArgs == {<<Tbl(T2), Str(ColA), Str(OpEq), Str(ColB)>>}

Next ==
    \/ \E c \in Conds : CondWhere(c, MaxParts, {"col", "tcol", "cond"}, {2})
    \/ \E c \in Conds : CondAnd(c, MaxParts, {"texpr", "cond"}, {2})
    \/ \E c \in Conds : CondIn(c, MaxParts, {2}, {"values", "slice"})
    \/ \E c \in Conds : CondLike(c, MaxParts)
    \/ \E c \in Conds : CondBetween(c, MaxParts)
    \/ \E c \in Conds : CondIsNull(c, MaxParts)
    \/ \E c \in Conds : CondIsNotNull(c, MaxParts)
    \/ \E c \in Conds : CondOrderBy(c, MaxParts, OrderByArgs)
    \/ \E c \in Conds : CondLimit(c, MaxParts)
    \/ \E c \in Conds : CondOffset(c, MaxParts)
    \/ \E c \in Conds : JoinOn(c, MaxParts, {Join}, OnArgs)
    \/ \E c \in Conds : Build(c)

Spec == Init({"sqlite3", "postgres"}) /\ [][Next]_vars

-----------------------------------------------------------------------------
(* SpecNest: comparisons, nesting in And and Or, and the clauses that       *)
(* follow the predicates.                                                  *)

OrderByArgsNest == {<<Str(ColA), Ord(ASC)>>}

NextNest ==
    \/ \E c \in Conds : CondWhere(c, MaxNestParts, {"expr"}, {})
    \/ \E c \in Conds : CondAnd(c, MaxNestParts, {"texpr", "cond"}, {2})
    \/ \E c \in Conds : CondOr(c, MaxNestParts, {"cond"}, {2})
    \/ \E c \in Conds : CondOrderBy(c, MaxNestParts, OrderByArgsNest)
    \/ \E c \in Conds : CondLimit(c, MaxNestParts)
    \/ \E c \in Conds : CondOffset(c, MaxNestParts)
    \/ \E c \in Conds : Build(c)

SpecNest == Init({"sqlite3", "postgres"}) /\ [][NextNest]_vars

-----------------------------------------------------------------------------
(* SpecSelect: Select over Conditions with joins and predicates.           *)

OnArgsSelect == {<<Str(ColA)>>, <<Str(ColA), Str(OpEq), Str(ColB)>>}

\* The argument lists of Select: different Conditions, at most MaxSelectArgs.
SelectArgs ==
    {cs \in UNION {[1..n -> Conds] : n \in 1..MaxSelectArgs} :
        \A i, j \in DOMAIN cs : cs[i] = cs[j] => i = j}

NextSelect ==
    \/ \E c \in Conds : CondWhere(c, MaxSelectParts, {"tcol", "expr"}, {})
    \/ \E c \in Conds : CondAnd(c, MaxSelectParts, {"texpr"}, {})
    \/ \E c \in Conds : CondIsNull(c, MaxSelectParts)
    \/ \E c \in Conds : CondLimit(c, MaxSelectParts)
    \/ \E c \in Conds : JoinOn(c, MaxSelectParts, {Join, LeftJoin}, OnArgsSelect)
    \/ \E cs \in SelectArgs : Select(cs)

SpecSelect == Init(Dialects) /\ [][NextSelect]_vars

-----------------------------------------------------------------------------
(* SpecSort: one Condition with many parts.                                *)

NextSort ==
    \/ CondWhere(1, MaxSortParts, {"col"}, {})
    \/ CondAnd(1, MaxSortParts, {"texpr"}, {})
    \/ CondIsNull(1, MaxSortParts)
    \/ CondOrderBy(1, MaxSortParts, OrderByArgsNest)
    \/ Build(1)

SpecSort == Init(Dialects) /\ [][NextSort]_vars

-----------------------------------------------------------------------------
(* Struct types, their primary key, and the arguments of Insert, Update and *)
(* Delete                                                                   *)

\* A struct type is the sequence of its fields.  A field is exported or not,
\* anonymous (an embedded struct, typ being its fields) or not, and carries
\* the "pk" tag or not; auto tells whether its kind is an integer kind.
Field(exported, pk, auto) ==
    [exported |-> exported, anonymous |-> FALSE, pk |-> pk, auto |-> auto, typ |-> <<>>]
Embedded(typ) ==
    [exported |-> TRUE, anonymous |-> TRUE, pk |-> FALSE, auto |-> FALSE, typ |-> typ]

\* IsUnexportedField
IsUnexportedField(field) == ~field.exported

\* DB.hasPKTag
hasPKTag(field) == field.pk

\* DB.isAutoIncrementable
isAutoIncrementable(field) == field.auto

\* DB.findPKIndex: the index sequence of the primary key field (indexes count
\* from 0), or <<>> for nil.
RECURSIVE findPKIndex(_, _), findPKIndexFrom(_, _, _)
findPKIndexFrom(typ, index, i) ==
    IF i >= Len(typ) THEN <<>>
    ELSE LET field == typ[i + 1]
         IN  IF IsUnexportedField(field) THEN findPKIndexFrom(typ, index, i + 1)
             ELSE IF field.anonymous
             THEN LET idx == findPKIndex(field.typ, Append(index, i))
                  IN  IF idx # <<>> THEN index \o idx
                      ELSE findPKIndexFrom(typ, index, i + 1)
             ELSE IF hasPKTag(field) THEN Append(index, i)
             ELSE findPKIndexFrom(typ, index, i + 1)

findPKIndex(typ, index) == findPKIndexFrom(typ, index, 0)

\* reflect.Type.FieldByIndex, for an index sequence that findPKIndex found
\* at depth one or two.
FieldByIndex(typ, index) ==
    IF Len(index) = 1 THEN typ[index[1] + 1] ELSE typ[index[1] + 1].typ[index[2] + 1]

\* The struct types the calls are made with: a primary key of integer kind,
\* no primary key, a primary key in an embedded struct, an embedded struct
\* without one, and a "pk" tag on an unexported field only.
TPk == <<Field(TRUE, TRUE, TRUE), Field(TRUE, FALSE, FALSE)>>
TNoPk == <<Field(TRUE, FALSE, FALSE)>>
TEmbeddedPk == <<Field(TRUE, FALSE, FALSE), Embedded(<<Field(TRUE, TRUE, FALSE)>>)>>
TEmbeddedNoPk == <<Embedded(TNoPk), Field(TRUE, FALSE, FALSE)>>
TUnexportedPk == <<Field(FALSE, TRUE, TRUE), Field(TRUE, FALSE, FALSE)>>

\* What a hook of an object does when it is called: the object has no such
\* hook ("none"), it returns nil ("ok") or it returns an error ("err").
HookResults == {"none", "ok", "err"}

\* An object of a mapped struct type, with what its Before and After hooks do.
Obj(before, after) == [before |-> before, after |-> after]

\* The arguments of Insert, Update and Delete: a pointer to a struct, a
\* struct value, a slice of structs (or of pointers to structs), a slice of
\* something else, a value of another kind, and nil.
PtrArg(typ, obj) == [kind |-> "ptr", typ |-> typ, objs |-> <<obj>>]
StructArg(typ, obj) == [kind |-> "struct", typ |-> typ, objs |-> <<obj>>]
SliceArg(typ, objs) == [kind |-> "slice", typ |-> typ, objs |-> objs]
BadSliceArg == [kind |-> "badslice", typ |-> <<>>, objs |-> <<>>]
OtherArg == [kind |-> "other", typ |-> <<>>, objs |-> <<>>]
NilArg == [kind |-> "nil", typ |-> <<>>, objs |-> <<>>]

\* The error values the calls return.
NoErr == <<>>
ErrTxDone == <<"ErrTxDone">>
ErrUsage == <<"usage">>
ErrDriver == <<"driver">>
ErrHook(name, i) == <<name, i>>

\* DB.tableValueOf: the struct type of table, an error when it is no struct,
\* a panic (reflect: Type of the zero Value) when it is nil.
tableValueOf(table) ==
    CASE table.kind = "nil" -> [panic |-> TRUE]
      [] table.kind \in {"ptr", "struct"} -> [panic |-> FALSE, err |-> NoErr, rtype |-> table.typ]
      [] OTHER -> [panic |-> FALSE, err |-> ErrUsage, rtype |-> <<>>]

\* DB.tableObjs: the objects of the argument and their struct type.  An empty
\* slice gives no objects, no type and no error; an argument that is neither
\* a slice nor a struct leaves objs empty, and objs[0] panics.
tableObjs(obj) ==
    CASE obj.kind = "slice" ->
             [panic |-> FALSE, err |-> NoErr, objs |-> obj.objs,
              rtype |-> IF obj.objs = <<>> THEN <<>> ELSE obj.typ]
      [] obj.kind = "badslice" -> [panic |-> FALSE, err |-> ErrUsage, objs |-> <<>>, rtype |-> <<>>]
      [] obj.kind = "struct" -> [panic |-> FALSE, err |-> ErrUsage, objs |-> <<>>, rtype |-> <<>>]
      [] obj.kind = "ptr" -> [panic |-> FALSE, err |-> NoErr, objs |-> obj.objs, rtype |-> obj.typ]
      [] OTHER -> [panic |-> TRUE]

-----------------------------------------------------------------------------
(* Insert, Update, Delete and the hooks                                     *)

\* What a call does that can be seen from outside, in order: a hook called
\* on the obj-th object (ok tells whether it returned nil), a statement
\* prepared on transaction on (0: on the database itself), executed or
\* queried (ok tells whether the driver returned no error).
\* Other events are the driver's "begin", "commit" and "rollback".
Ev(e, obj, ok, on) == [e |-> e, obj |-> obj, ok |-> ok, on |-> on]

\* The transactions that are begun and neither committed nor rolled back.
OpenTxs(ts) == {i \in DOMAIN ts : ts[i] = "open"}

\* A statement the driver executed: its kind, the number of objects it is
\* about, the number of rows the driver reports as affected, the
\* transaction it was prepared on (0: none), and the transactions that were
\* open when it was prepared.
Stmt(op, n, rows, on, ts) ==
    [op |-> op, n |-> n, rows |-> rows, on |-> on, open |-> OpenTxs(ts)]

\* What the driver does in one call: everything succeeds and the statement
\* affects the rows it names, it affects no row, or Prepare, Exec or the
\* query of LastInsertId returns an error.
DriverOutcomes == {"ok", "no row", "prepare fails", "exec fails", "query fails"}

\* DB.prepare: the transaction the statement is prepared on, db.tx when
\* there is one and the database itself otherwise (0).
prepare(t) == IF t = 0 THEN 0 ELSE t

\* A variant of the hook loops that goes on after a hook returned an error
\* and returns the last error.
RECURSIVE runHooksAll(_, _, _, _)
runHooksAll(name, objs, which, i) ==
    IF i > Len(objs) THEN [events |-> <<>>, err |-> NoErr]
    ELSE LET rest == runHooksAll(name, objs, which, i + 1)
         IN  IF objs[i][which] = "none" THEN rest
             ELSE [events |-> <<Ev(name, i, objs[i][which] = "ok", 0)>> \o rest.events,
                   err |-> IF rest.err # NoErr \/ objs[i][which] = "ok" THEN rest.err
                           ELSE ErrHook(name, i)]

\* The loops over objs that call the hook name of every object that has it,
\* from the i-th on: the calls made and the error that ended the loop.
RECURSIVE runHooks(_, _, _, _)
runHooks(name, objs, which, i) ==
    IF i > Len(objs) THEN [events |-> <<>>, err |-> NoErr]
    ELSE IF objs[i][which] = "none" THEN runHooks(name, objs, which, i + 1)
    ELSE IF objs[i][which] = "err"
    THEN [events |-> <<Ev(name, i, FALSE, 0)>>, err |-> ErrHook(name, i)]
    ELSE LET rest == runHooks(name, objs, which, i + 1)
         IN  [events |-> <<Ev(name, i, TRUE, 0)>> \o rest.events, err |-> rest.err]

\* What a call returns and does: the affected count and the error, the
\* events, and the statements executed; or a panic that leaves the call.
Return(affected, err, events, executed) ==
    [panicked |-> FALSE, affected |-> affected, err |-> err, events |-> events,
     executed |-> executed]
Panicked == [panicked |-> TRUE, affected |-> 0, err |-> NoErr, events |-> <<>>,
             executed |-> <<>>]

\* A variant of afterHooks that reports -1 rows when a hook fails.
afterHooksMinusOne(name, objs, affected, events, executed) ==
    LET a == runHooks(name, objs, "after", 1)
    IN  Return(IF a.err # NoErr THEN -1 ELSE affected, a.err, events \o a.events, executed)

\* The end of Insert, Update and Delete: the After hooks, and the return of
\* the affected count with the error of the hook that failed, if any.
afterHooks(name, objs, affected, events, executed) ==
    LET a == runHooks(name, objs, "after", 1)
    IN  Return(affected, a.err, events \o a.events, executed)

\* The middle of Insert, Update and Delete: prepare and Exec of the statement
\* op for n objects, with db.tx being t.  ok tells whether both succeeded,
\* rows is what RowsAffected returns.
prepareExec(op, n, t, ts, drv) ==
    IF drv = "prepare fails"
    THEN [ok |-> FALSE, events |-> <<Ev("prepare", 0, FALSE, prepare(t))>>, rows |-> 0,
          executed |-> <<>>]
    ELSE IF drv = "exec fails"
    THEN [ok |-> FALSE, events |-> <<Ev("prepare", 0, TRUE, prepare(t)), Ev("exec", 0, FALSE, prepare(t))>>,
          rows |-> 0, executed |-> <<>>]
    ELSE [ok |-> TRUE, events |-> <<Ev("prepare", 0, TRUE, prepare(t)), Ev("exec", 0, TRUE, prepare(t))>>,
          rows |-> IF drv = "no row" THEN 0 ELSE n,
          executed |-> <<Stmt(op, n, IF drv = "no row" THEN 0 ELSE n, prepare(t), ts)>>]

\* DB.LastInsertId
lastInsertId(t, ts, drv) ==
    IF drv = "prepare fails"
    THEN [ok |-> FALSE, events |-> <<Ev("prepare", 0, FALSE, prepare(t))>>, executed |-> <<>>]
    ELSE IF drv = "query fails"
    THEN [ok |-> FALSE, events |-> <<Ev("prepare", 0, TRUE, prepare(t)), Ev("query", 0, FALSE, prepare(t))>>,
          executed |-> <<>>]
    ELSE [ok |-> TRUE, events |-> <<Ev("prepare", 0, TRUE, prepare(t)), Ev("query", 0, TRUE, prepare(t))>>,
          executed |-> <<Stmt("LASTINSERTID", 0, 0, prepare(t), ts)>>]

\* DB.Insert
insert(obj, t, ts, drv) ==
    LET o == tableObjs(obj)
    IN  IF o.panic THEN Panicked
        ELSE IF o.err # NoErr THEN Return(-1, o.err, <<>>, <<>>)
        ELSE IF Len(o.objs) < 1 THEN Return(0, NoErr, <<>>, <<>>)
        ELSE
        LET b == runHooks("BeforeInsert", o.objs, "before", 1)
            s == prepareExec("INSERT", Len(o.objs), t, ts, drv)
            affected == s.rows
            pkIdx == findPKIndex(o.rtype, <<>>)
            needId == /\ Len(o.objs) = 1
                      /\ Len(pkIdx) > 0
                      /\ isAutoIncrementable(FieldByIndex(o.rtype, pkIdx))
            id == lastInsertId(t, ts, drv)
        IN  IF b.err # NoErr THEN Return(-1, b.err, b.events, <<>>)
            ELSE IF ~s.ok THEN Return(-1, ErrDriver, b.events \o s.events, <<>>)
            ELSE IF needId /\ ~id.ok
            THEN Return(affected, ErrDriver, b.events \o s.events \o id.events, s.executed)
            ELSE afterHooks("AfterInsert", o.objs, affected,
                            b.events \o s.events \o (IF needId THEN id.events ELSE <<>>),
                            s.executed \o (IF needId THEN id.executed ELSE <<>>))

\* DB.Update
update(obj, t, ts, drv) ==
    LET v == tableValueOf(obj)
    IN  IF v.panic THEN Panicked
        ELSE IF v.err # NoErr THEN Return(-1, v.err, <<>>, <<>>)
        ELSE
        LET b == runHooks("BeforeUpdate", obj.objs, "before", 1)
            pkIdx == findPKIndex(v.rtype, <<>>)
            s == prepareExec("UPDATE", 1, t, ts, drv)
        IN  IF b.err # NoErr THEN Return(-1, b.err, b.events, <<>>)
            ELSE IF Len(pkIdx) < 1 THEN Return(-1, ErrUsage, b.events, <<>>)
            ELSE IF ~s.ok THEN Return(-1, ErrDriver, b.events \o s.events, <<>>)
            ELSE afterHooks("AfterUpdate", obj.objs, s.rows,
                            b.events \o s.events, s.executed)

\* DB.Delete
delete(obj, t, ts, drv) ==
    LET o == tableObjs(obj)
    IN  IF o.panic THEN Panicked
        ELSE IF o.err # NoErr THEN Return(-1, o.err, <<>>, <<>>)
        ELSE IF Len(o.objs) < 1 THEN Return(0, NoErr, <<>>, <<>>)
        ELSE
        LET b == runHooks("BeforeDelete", o.objs, "before", 1)
            pkIdx == findPKIndex(o.rtype, <<>>)
            s == prepareExec("DELETE", Len(o.objs), t, ts, drv)
        IN  IF b.err # NoErr THEN Return(-1, b.err, b.events, <<>>)
            ELSE IF Len(pkIdx) < 1 THEN Return(-1, ErrUsage, b.events, <<>>)
            ELSE IF ~s.ok THEN Return(-1, ErrDriver, b.events \o s.events, <<>>)
            ELSE afterHooks("AfterDelete", o.objs, s.rows,
                            b.events \o s.events, s.executed)

-----------------------------------------------------------------------------
(* Select, LastInsertId and the transaction of the handle                   *)

\* The output arguments of Select: a pointer to a slice of structs, a value
\* that is no pointer, and a nil pointer; and its other arguments: none, or
\* a function over a column that is no string, which DB.columns panics on.
SelectOutputs == {"ptrslice", "value", "nilptr"}
SelectColumns == {"none", "badcolumn"}

\* DB.Select, as far as the handle is concerned: the checks of the output
\* argument, classify, prepare and Query.  A panic inside is recovered and
\* returned as an error.
ErrPanic == <<"recovered">>
selectOutput(output, column, t, ts, drv) ==
    IF output = "value" THEN Return(0, ErrUsage, <<>>, <<>>)
    ELSE IF output = "nilptr" THEN Return(0, ErrUsage, <<>>, <<>>)
    ELSE IF column = "badcolumn" THEN Return(0, ErrPanic, <<>>, <<>>)
    ELSE IF drv = "prepare fails"
    THEN Return(0, ErrDriver, <<Ev("prepare", 0, FALSE, prepare(t))>>, <<>>)
    ELSE IF drv \in {"exec fails", "query fails"}
    THEN Return(0, ErrDriver, <<Ev("prepare", 0, TRUE, prepare(t)), Ev("query", 0, FALSE, prepare(t))>>, <<>>)
    ELSE Return(0, NoErr, <<Ev("prepare", 0, TRUE, prepare(t)), Ev("query", 0, TRUE, prepare(t))>>,
                <<Stmt("SELECT", 0, 0, prepare(t), ts)>>)

\* DB.Begin: a transaction is begun on the database and, unless that
\* failed, stored in db.tx.
begin(t, ts, ok) ==
    IF ~ok THEN [tx |-> t, txs |-> ts, err |-> ErrDriver, events |-> <<Ev("begin", 0, FALSE, 0)>>]
    ELSE [tx |-> Len(ts) + 1, txs |-> Append(ts, "open"), err |-> NoErr,
          events |-> <<Ev("begin", 0, TRUE, Len(ts) + 1)>>]

\* A variant of endTx that returns nil when there is no transaction.
endTxNil(name, t, ts, ok) ==
    IF t = 0 THEN [tx |-> 0, txs |-> ts, err |-> NoErr, events |-> <<>>]
    ELSE [tx |-> 0,
          txs |-> [ts EXCEPT ![t] = IF ok THEN name ELSE "failed"],
          err |-> IF ok THEN NoErr ELSE ErrDriver,
          events |-> <<Ev(name, 0, ok, t)>>]

\* A variant of endTx that keeps the transaction when the driver fails.
endTxKeep(name, t, ts, ok) ==
    IF t = 0 THEN [tx |-> 0, txs |-> ts, err |-> ErrTxDone, events |-> <<>>]
    ELSE [tx |-> IF ok THEN 0 ELSE t,
          txs |-> [ts EXCEPT ![t] = IF ok THEN name ELSE "failed"],
          err |-> IF ok THEN NoErr ELSE ErrDriver,
          events |-> <<Ev(name, 0, ok, t)>>]

\* DB.Commit and DB.Rollback (name is "commit" or "rollback"): ErrTxDone
\* without a transaction; otherwise the driver's call, after which the
\* transaction is over whatever the driver returned, and db.tx is nil.
endTx(name, t, ts, ok) ==
    IF t = 0 THEN [tx |-> 0, txs |-> ts, err |-> ErrTxDone, events |-> <<>>]
    ELSE [tx |-> 0,
          txs |-> [ts EXCEPT ![t] = IF ok THEN name ELSE "failed"],
          err |-> IF ok THEN NoErr ELSE ErrDriver,
          events |-> <<Ev(name, 0, ok, t)>>]

-----------------------------------------------------------------------------
(* The calls on the handle, one at a time                                   *)

\* The result of the last call: the method, its argument, and what it
\* returned and did.
Called(op, arg, r) ==
    [op |-> op, arg |-> arg, panicked |-> r.panicked, affected |-> r.affected,
     err |-> r.err, events |-> r.events, executed |-> r.executed]

\* A call that prepares statements: they are closed when it returns, and
\* db.tx is as it was.
Statement(op, arg, r) ==
    /\ out' = Called(op, arg, r)
    /\ UNCHANGED <<dialect, conds, handle>>

Insert(obj) ==
    \E drv \in DriverOutcomes \ {"no row"} : Statement("Insert", obj, insert(obj, tx, txs, drv))

Update(obj) ==
    \E drv \in DriverOutcomes \ {"query fails"} :
        Statement("Update", obj, update(obj, tx, txs, drv))

Delete(obj) ==
    \E drv \in DriverOutcomes \ {"query fails"} :
        Statement("Delete", obj, delete(obj, tx, txs, drv))

SelectOutput(output, column) ==
    \E drv \in DriverOutcomes \ {"no row", "exec fails"} :
        Statement("Select", [kind |-> output, column |-> column],
                  selectOutput(output, column, tx, txs, drv))

LastInsertId ==
    \E drv \in DriverOutcomes \ {"no row", "exec fails"} :
        LET id == lastInsertId(tx, txs, drv)
        IN  Statement("LastInsertId", NilArg,
                      Return(0, IF id.ok THEN NoErr ELSE ErrDriver, id.events, id.executed))

Transaction(op, r) ==
    /\ out' = Called(op, NilArg, Return(0, r.err, r.events, <<>>))
    /\ tx' = r.tx
    /\ txs' = r.txs
    /\ UNCHANGED <<dialect, conds, m, pc, local, stmts>>

Begin(max) ==
    \E ok \in BOOLEAN :
        /\ ok => Len(txs) < max
        /\ Transaction("Begin", begin(tx, txs, ok))

Commit == \E ok \in BOOLEAN : Transaction("Commit", endTx("commit", tx, txs, ok))

Rollback == \E ok \in BOOLEAN : Transaction("Rollback", endTx("rollback", tx, txs, ok))

-----------------------------------------------------------------------------
(* SpecHooks: Insert, Update and Delete of objects with hooks, of struct    *)
(* types with and without a primary key, and of arguments of other kinds;   *)
(* Select with the output arguments and columns it accepts and rejects.     *)

MaxObjs == 2

\* The elements of the slices: both hooks return nil, or one returns an error.
SliceObjs == {Obj("ok", "ok"), Obj("err", "ok"), Obj("ok", "err")}

Slices(S, n) == UNION {[1..k -> S] : k \in 0..n}

HookArgs ==
    {PtrArg(TPk, Obj(b, a)) : b \in HookResults, a \in HookResults}
    \cup {PtrArg(typ, Obj("ok", "ok")) : typ \in {TNoPk, TEmbeddedPk, TEmbeddedNoPk, TUnexportedPk}}
    \cup {PtrArg(TNoPk, Obj("err", "ok")), StructArg(TPk, Obj("ok", "ok"))}
    \cup {SliceArg(TPk, objs) : objs \in Slices(SliceObjs, MaxObjs)}
    \cup {SliceArg(TNoPk, objs) : objs \in Slices({Obj("ok", "ok")}, 1)}
    \cup {SliceArg(TPk, <<Obj("none", "none")>>), BadSliceArg, OtherArg, NilArg}

NextHooks ==
    \/ \E obj \in HookArgs : Insert(obj)
    \/ \E obj \in HookArgs : Update(obj)
    \/ \E obj \in HookArgs : Delete(obj)
    \/ \E output \in SelectOutputs : \E column \in SelectColumns :
           SelectOutput(output, column)

SpecHooks == Init({"sqlite3"}) /\ [][NextHooks]_vars

-----------------------------------------------------------------------------
(* SpecTx: Begin, Commit and Rollback on one handle, called one at a time,  *)
(* with statements in between.                                              *)

MaxTx == 2

TxArgs ==
    {PtrArg(TPk, Obj("ok", "ok")), PtrArg(TPk, Obj("ok", "err")),
     SliceArg(TPk, <<Obj("ok", "err"), Obj("ok", "ok")>>)}

NextTx ==
    \/ Begin(MaxTx)
    \/ Commit
    \/ Rollback
    \/ \E obj \in TxArgs : Insert(obj)
    \/ \E obj \in TxArgs : Update(obj)
    \/ \E obj \in TxArgs : Delete(obj)
    \/ SelectOutput("ptrslice", "none")
    \/ LastInsertId

SpecTx == Init({"sqlite3"}) /\ [][NextTx]_vars

-----------------------------------------------------------------------------
(* SpecLock: goroutines that call Begin, Commit, Rollback and prepare on    *)
(* one handle, one statement of the code at a time.                         *)

MaxLockTx == 2
MaxStmts == 1

Goto(t, op, at) == pc' = [pc EXCEPT ![t] = At(op, at)]

\* A variant of Lock that does not wait.
LockAnyway(t) == m' = t

\* db.m.Lock(): the goroutine waits until no goroutine holds the mutex.
Lock(t) == m = 0 /\ m' = t

\* The deferred db.m.Unlock(), at the return of the call.
Unlock(t) ==
    /\ pc[t].at = "unlock"
    /\ m' = 0
    /\ pc' = [pc EXCEPT ![t] = Idle]
    /\ local' = [local EXCEPT ![t] = 0]
    /\ UNCHANGED <<dialect, conds, out, tx, txs, stmts>>

\* DB.Begin, first line: db.db.Begin(), before the mutex is taken.  When
\* the driver fails the call returns at once.
BeginCall(t) ==
    /\ pc[t] = Idle
    /\ \/ UNCHANGED <<pc, local, txs>>
       \/ /\ Len(txs) < MaxLockTx
          /\ txs' = Append(txs, "open")
          /\ local' = [local EXCEPT ![t] = Len(txs) + 1]
          /\ Goto(t, "Begin", "lock")
    /\ UNCHANGED <<dialect, conds, out, tx, m, stmts>>

\* The calls that start with db.m.Lock().
LockedCalls == {"Commit", "Rollback", "prepare"}

Call(t, op) ==
    /\ pc[t] = Idle
    /\ Goto(t, op, "lock")
    /\ UNCHANGED <<dialect, conds, out, tx, txs, m, local, stmts>>

\* db.m.Lock() in Begin, Commit, Rollback and prepare.
LockStep(t) ==
    /\ pc[t].at = "lock"
    /\ Lock(t)
    /\ Goto(t, pc[t].op, IF pc[t].op = "Begin" THEN "store" ELSE "test")
    /\ UNCHANGED <<dialect, conds, out, tx, txs, local, stmts>>

\* DB.Begin: db.tx = tx
BeginStore(t) ==
    /\ pc[t] = At("Begin", "store")
    /\ tx' = local[t]
    /\ Goto(t, "Begin", "unlock")
    /\ UNCHANGED <<dialect, conds, out, txs, m, local, stmts>>

\* DB.Commit and DB.Rollback: if db.tx == nil { return ErrTxDone }
EndTest(t) ==
    /\ pc[t].op \in {"Commit", "Rollback"} /\ pc[t].at = "test"
    /\ local' = [local EXCEPT ![t] = tx]
    /\ Goto(t, pc[t].op, IF tx = 0 THEN "unlock" ELSE "end")
    /\ UNCHANGED <<dialect, conds, out, tx, txs, m, stmts>>

\* DB.Commit and DB.Rollback: err := db.tx.Commit(), err := db.tx.Rollback()
EndDriver(t) ==
    /\ pc[t].op \in {"Commit", "Rollback"} /\ pc[t].at = "end"
    /\ tx # 0
    /\ \E ok \in BOOLEAN :
           txs' = endTx(IF pc[t].op = "Commit" THEN "commit" ELSE "rollback",
                        tx, txs, ok).txs
    /\ Goto(t, pc[t].op, "clear")
    /\ UNCHANGED <<dialect, conds, out, tx, m, local, stmts>>

\* DB.Commit and DB.Rollback: db.tx = nil
EndClear(t) ==
    /\ pc[t].op \in {"Commit", "Rollback"} /\ pc[t].at = "clear"
    /\ tx' = 0
    /\ Goto(t, pc[t].op, "unlock")
    /\ UNCHANGED <<dialect, conds, out, txs, m, local, stmts>>

\* DB.prepare: the statement is prepared on db.tx, or on the database when
\* db.tx is nil.
PrepareTest(t) ==
    /\ pc[t] = At("prepare", "test")
    /\ Len(stmts) < MaxStmts
    /\ local' = [local EXCEPT ![t] = tx]
    /\ stmts' = Append(stmts, Stmt("PREPARE", 0, 0, prepare(tx), txs))
    /\ Goto(t, "prepare", "unlock")
    /\ UNCHANGED <<dialect, conds, out, tx, txs, m>>

NextLock ==
    \/ \E t \in Threads : BeginCall(t)
    \/ \E t \in Threads : \E op \in LockedCalls : Call(t, op)
    \/ \E t \in Threads : LockStep(t)
    \/ \E t \in Threads : BeginStore(t)
    \/ \E t \in Threads : EndTest(t)
    \/ \E t \in Threads : EndDriver(t)
    \/ \E t \in Threads : EndClear(t)
    \/ \E t \in Threads : PrepareTest(t)
    \/ \E t \in Threads : Unlock(t)

SpecLock == Init({"sqlite3"}) /\ [][NextLock]_vars

-----------------------------------------------------------------------------
(* SpecExec: goroutines that call Begin, Commit, Rollback and Update on one *)
(* handle, one statement of the code at a time.  Update stands for Select,  *)
(* Insert and Delete as well: each of them calls db.prepare and then        *)
(* executes the statement it returned.                                      *)

\* The calls that prepare a statement and execute it.
ExecCalls == {"Update"}

\* DB.prepare, called by Update: the statement is prepared on db.tx, or on
\* the database when db.tx is nil.
CallerPrepare(t) ==
    /\ pc[t].op \in ExecCalls /\ pc[t].at = "test"
    /\ local' = [local EXCEPT ![t] = prepare(tx)]
    /\ Goto(t, pc[t].op, "prepared")
    /\ UNCHANGED <<dialect, conds, out, tx, txs, m, stmts>>

\* DB.prepare: the deferred db.m.Unlock(); the caller has the statement.
CallerUnlock(t) ==
    /\ pc[t].op \in ExecCalls /\ pc[t].at = "prepared"
    /\ m' = 0
    /\ Goto(t, pc[t].op, "exec")
    /\ UNCHANGED <<dialect, conds, out, tx, txs, local, stmts>>

\* stmt.Exec(args...) in Update: a statement of a transaction that is
\* committed or rolled back is not executed, database/sql returns an error.
CallerExec(t) ==
    /\ pc[t].op \in ExecCalls /\ pc[t].at = "exec"
    /\ LET active == local[t] = 0 \/ txs[local[t]] = "open"
       IN  \E err \in (IF active THEN {NoErr, ErrDriver} ELSE {ErrTxDone}) :
               out' = [op |-> "Exec", by |-> t, on |-> local[t],
                       active |-> active, open |-> OpenTxs(txs), err |-> err]
    /\ pc' = [pc EXCEPT ![t] = Idle]
    /\ local' = [local EXCEPT ![t] = 0]
    /\ UNCHANGED <<dialect, conds, tx, txs, m, stmts>>

NextExec ==
    \/ \E t \in Threads : BeginCall(t)
    \/ \E t \in Threads : \E op \in {"Commit", "Rollback"} \cup ExecCalls : Call(t, op)
    \/ \E t \in Threads : LockStep(t)
    \/ \E t \in Threads : BeginStore(t)
    \/ \E t \in Threads : EndTest(t)
    \/ \E t \in Threads : EndDriver(t)
    \/ \E t \in Threads : EndClear(t)
    \/ \E t \in Threads : Unlock(t)
    \/ \E t \in Threads : CallerPrepare(t)
    \/ \E t \in Threads : CallerUnlock(t)
    \/ \E t \in Threads : CallerExec(t)

SpecExec == Init({"sqlite3"}) /\ [][NextExec]_vars

-----------------------------------------------------------------------------
(* SpecInsert: goroutines that call Insert on one handle.  The rows of the  *)
(* table are in stmts, each with the goroutine that inserted it; the key of *)
(* a row is its position, and the key that the statement of LastInsertId    *)
(* retrieves is the one generated most recently on the connection.          *)

MaxRows == 2

\* Where a goroutine is in Insert: n objects, pk autoincrementable or not.
InInsert(at, n, auto) == [op |-> "Insert", at |-> at, n |-> n, auto |-> auto]

\* The primary keys of the objects before Insert.
ZeroKeys(n) == [i \in 1..n |-> 0]

\* The return of Insert.
InsertReturn(t, n, auto, err, pks, key) ==
    /\ out' = [op |-> "Insert", by |-> t, n |-> n, auto |-> auto, err |-> err,
               pks |-> pks, key |-> key]
    /\ pc' = [pc EXCEPT ![t] = Idle]
    /\ local' = [local EXCEPT ![t] = 0]

\* DB.Insert up to result, err := stmt.Exec(args...): the rows are inserted
\* or the driver returns an error; Insert goes on to LastInsertId when obj
\* is single and its primary key is autoincrementable.
InsertExec(t, n, auto) ==
    /\ pc[t] = Idle
    /\ \/ /\ InsertReturn(t, n, auto, ErrDriver, ZeroKeys(n), 0)
          /\ UNCHANGED stmts
       \/ /\ Len(stmts) + n <= MaxRows
          /\ stmts' = stmts \o [i \in 1..n |-> [op |-> "INSERT", by |-> t]]
          /\ IF n = 1 /\ auto
             THEN /\ pc' = [pc EXCEPT ![t] = InInsert("LastInsertId", n, auto)]
                  /\ local' = [local EXCEPT ![t] = Len(stmts) + 1]
                  /\ UNCHANGED out
             ELSE InsertReturn(t, n, auto, NoErr, ZeroKeys(n), Len(stmts) + n)
    /\ UNCHANGED <<dialect, conds, tx, txs, m>>

\* DB.Insert: id, err := db.LastInsertId(), and rv.Set of the primary key.
InsertLastInsertId(t) ==
    /\ pc[t].op = "Insert" /\ pc[t].at = "LastInsertId"
    /\ \/ InsertReturn(t, 1, TRUE, ErrDriver, ZeroKeys(1), local[t])
       \/ InsertReturn(t, 1, TRUE, NoErr, <<Len(stmts)>>, local[t])
    /\ UNCHANGED <<dialect, conds, tx, txs, m, stmts>>

NextInsert ==
    \/ \E t \in Threads : \E n \in 1..2 : \E auto \in BOOLEAN : InsertExec(t, n, auto)
    \/ \E t \in Threads : InsertLastInsertId(t)

SpecInsert == Init({"sqlite3"}) /\ [][NextInsert]_vars

-----------------------------------------------------------------------------
(* SpecClassify: the argument lists of Select                               *)

MaxClassifyArgs == 2

\* The arguments of Select after the output, by dynamic type: a column name,
\* a list of column names, a *Distinct, a *Function over column names, a
\* *Function over a value that is no column name, a *Condition, a *From, and
\* a value of any other type.
ArgTypes ==
    {"string", "[]string", "*Distinct", "*Function", "*Function(42)", "*Condition",
     "*From", "int"}

\* A variant of classifyRest that ignores the arguments it does not know.
classifyRestLenient(args, i) == NoErr

\* DB.classify, the loop over the arguments from offset on: the error it
\* returns.
RECURSIVE classifyRest(_, _)
classifyRest(args, i) ==
    IF i > Len(args) THEN NoErr
    ELSE IF args[i] \in {"*Condition", "*From"} THEN classifyRest(args, i + 1)
    ELSE ErrUsage

\* DB.classify: the switch on the first argument, and the loop.  panic tells
\* that DB.columns panicked on a column of a type it does not know.
classifyArgs(args) ==
    IF Len(args) = 0 THEN [panic |-> FALSE, err |-> NoErr]
    ELSE IF args[1] = "*Function(42)" THEN [panic |-> TRUE, err |-> NoErr]
    ELSE IF args[1] \in {"string", "[]string", "*Distinct", "*Function"}
    THEN [panic |-> FALSE, err |-> classifyRest(args, 2)]
    ELSE [panic |-> FALSE, err |-> classifyRest(args, 1)]

\* DB.Select with an argument list: the checks of the output and of the
\* From arguments, classify, prepare and Query.  output is a pointer to a
\* slice of structs ("ptrslice") or to another value ("ptrvalue").
selectArgs(output, args, t, ts, drv) ==
    LET froms == {i \in DOMAIN args : args[i] = "*From"}
        c == classifyArgs(args)
    IN  IF Cardinality(froms) > 1 THEN Return(0, ErrUsage, <<>>, <<>>)
        ELSE IF output = "ptrvalue" /\ froms = {} THEN Return(0, ErrUsage, <<>>, <<>>)
        ELSE IF c.panic THEN Return(0, ErrPanic, <<>>, <<>>)
        ELSE IF c.err # NoErr THEN Return(0, c.err, <<>>, <<>>)
        ELSE selectOutput("ptrslice", "none", t, ts, drv)

SelectWith(output, args) ==
    \E drv \in DriverOutcomes \ {"no row", "exec fails"} :
        Statement("Select", [kind |-> output, column |-> "none", args |-> args],
                  selectArgs(output, args, tx, txs, drv))

NextClassify ==
    \E output \in {"ptrslice", "ptrvalue"} :
        \E args \in Slices(ArgTypes, MaxClassifyArgs) : SelectWith(output, args)

SpecClassify == Init({"sqlite3"}) /\ [][NextClassify]_vars

-----------------------------------------------------------------------------
(* SpecShapes: the clause methods called with argument lists of the         *)
(* documented shapes and of other lengths.                                  *)

MaxShapeParts == 2

OrderByArgsShapes == {<<Str(ColA), Ord(ASC)>>, <<Str(ColA)>>, <<Tbl(T2), Str(ColA)>>}

OnArgsShapes == {<<Str(ColA)>>, <<Str(ColA), Str(OpEq)>>, <<Tbl(T2)>>}

NextShapes ==
    \/ \E c \in Conds : CondWhere(c, MaxShapeParts, {"col", "expr", "colop", "five"}, {})
    \/ \E c \in Conds : CondAnd(c, MaxShapeParts, {"tcol", "texpr", "colop"}, {})
    \/ \E c \in Conds : CondOrderBy(c, MaxShapeParts, OrderByArgsShapes)
    \/ \E c \in Conds : JoinOn(c, MaxShapeParts, {Join}, OnArgsShapes)
    \/ \E c \in Conds : Build(c)

SpecShapes == Init({"sqlite3"}) /\ [][NextShapes]_vars

-----------------------------------------------------------------------------
(* SpecIndex: the searches for a column and for the primary key in struct   *)
(* types with embedded structs.                                             *)

MaxDepth == 2

\* A field with the column name that columnFromTag gives it; an embedded
\* struct has the column name of its type.
Named(column, field) ==
    [column |-> column, exported |-> field.exported, anonymous |-> field.anonymous,
     pk |-> field.pk, auto |-> field.auto, typ |-> field.typ]

\* DB.columnFromTag
columnFromTag(field) == field.column

\* DB.fieldIndexByName: the index sequence of the field with the column
\* name (indexes count from 0), or <<>> for nil.
RECURSIVE fieldIndexByName(_, _, _), fieldIndexByNameFrom(_, _, _, _)
fieldIndexByNameFrom(t, name, index, i) ==
    IF i >= Len(t) THEN <<>>
    ELSE LET field == t[i + 1]
             idx == fieldIndexByName(field.typ, name, Append(index, i))
         IN  IF columnFromTag(field) = name THEN Append(index, i)
             ELSE IF field.anonymous /\ Len(idx) > 0 THEN index \o idx
             ELSE fieldIndexByNameFrom(t, name, index, i + 1)

fieldIndexByName(t, name, index) == fieldIndexByNameFrom(t, name, index, 0)

\* The fields at the end of the embedding: a column, an exported primary
\* key, and a primary key that is not exported.
Leaves ==
    {Named("a", Field(TRUE, FALSE, FALSE)), Named("id", Field(TRUE, TRUE, TRUE)),
     Named("id", Field(FALSE, TRUE, TRUE))}

\* The struct types with embedded structs nested at most d deep.
RECURSIVE IndexTypes(_)
IndexTypes(d) ==
    IF d = 0
    THEN {<<l>> : l \in Leaves}
         \cup {<<k, l>> : k \in {x \in Leaves : x.column = "id"},
                          l \in {x \in Leaves : x.column = "a"}}
    ELSE IndexTypes(d - 1)
         \cup {<<Named("e", Embedded(t))>> : t \in IndexTypes(d - 1)}
         \cup {<<Named("b", Field(TRUE, FALSE, FALSE)), Named("e", Embedded(t))>> :
                   t \in IndexTypes(d - 1)}

\* The search of selectToSlice for the field of a column of the result.
FieldIndexByName(t, name) ==
    /\ out' = [op |-> "fieldIndexByName", typ |-> t, name |-> name,
               index |-> fieldIndexByName(t, name, <<>>)]
    /\ UNCHANGED <<dialect, conds, handle>>

\* The search of Insert, Update and Delete for the primary key.
FindPKIndex(t) ==
    /\ out' = [op |-> "findPKIndex", typ |-> t, name |-> "",
               index |-> findPKIndex(t, <<>>)]
    /\ UNCHANGED <<dialect, conds, handle>>

NextIndex ==
    \/ \E t \in IndexTypes(MaxDepth) : \E name \in {"a", "b", "id"} : FieldIndexByName(t, name)
    \/ \E t \in IndexTypes(MaxDepth) : FindPKIndex(t)

SpecIndex == Init({"sqlite3"}) /\ [][NextIndex]_vars

-----------------------------------------------------------------------------
(* SpecQuote: Quote of two identifiers in every dialect                     *)

MaxIdent == 2

\* The identifiers: letters and the quote characters of the dialects.
Idents == Slices({"a", "\"", BackQuote}, MaxIdent)

\* d.Quote(s) and d.Quote(t)
QuoteTwo(s, t) ==
    /\ out' = [op |-> "Quote", s |-> s, t |-> t,
               qs |-> Quote(dialect, s), qt |-> Quote(dialect, t)]
    /\ UNCHANGED <<dialect, conds, handle>>

NextQuote == \E s \in Idents : \E t \in Idents : QuoteTwo(s, t)

SpecQuote == Init(Dialects) /\ [][NextQuote]_vars

-----------------------------------------------------------------------------
(* SpecCase: ToSnakeCase of a field name and ToCamelCase of the result      *)
(* A Go string is a sequence of bytes; a rune is a code point.              *)

MaxName == 3

Underscore == 95
RuneError == 65533

IsCont(b) == b \in 128..191

\* utf8.DecodeRune as the range loop over a string uses it: the rune at the
\* head of the bytes and its width, RuneError of width 1 for a byte that
\* starts no encoding.  Encodings of four bytes do not occur.
DecodeRune(bs) ==
    LET b == bs[1]
    IN  IF b < 128 THEN [r |-> b, n |-> 1]
        ELSE IF b \in 194..223 /\ Len(bs) >= 2 /\ IsCont(bs[2])
        THEN [r |-> (b - 192) * 64 + (bs[2] - 128), n |-> 2]
        ELSE IF /\ b \in 224..239 /\ Len(bs) >= 3 /\ IsCont(bs[2]) /\ IsCont(bs[3])
                /\ (b = 224 => bs[2] >= 160) /\ (b = 237 => bs[2] <= 159)
        THEN [r |-> (b - 224) * 4096 + (bs[2] - 128) * 64 + (bs[3] - 128), n |-> 3]
        ELSE [r |-> RuneError, n |-> 1]

\* for _, r := range s
RECURSIVE Runes(_)
Runes(bs) ==
    IF bs = <<>> THEN <<>>
    ELSE LET d == DecodeRune(bs)
         IN  <<d.r>> \o Runes(SubSeq(bs, d.n + 1, Len(bs)))

\* WriteRune(r), string(result): the UTF-8 encoding of a rune below 65536.
EncodeRune(r) ==
    IF r < 128 THEN <<r>>
    ELSE IF r < 2048 THEN <<192 + (r \div 64), 128 + (r % 64)>>
    ELSE <<224 + (r \div 4096), 128 + ((r \div 64) % 64), 128 + (r % 64)>>

RECURSIVE EncodeRunes(_)
EncodeRunes(rs) ==
    IF rs = <<>> THEN <<>> ELSE EncodeRune(Head(rs)) \o EncodeRunes(Tail(rs))

\* unicode.IsUpper, unicode.ToLower and unicode.ToUpper on ASCII, Latin-1 and
\* RuneError.
IsUpper(r) == r \in (65..90) \cup (192..214) \cup (216..222)
ToLower(r) == IF IsUpper(r) THEN r + 32 ELSE r
ToUpper(r) == IF r \in (97..122) \cup (224..246) \cup (248..254) THEN r - 32 ELSE r

RECURSIVE camelRunes(_, _)
camelRunes(rs, upper) ==
    IF rs = <<>> THEN <<>>
    ELSE IF Head(rs) = Underscore THEN camelRunes(Tail(rs), TRUE)
    ELSE IF upper THEN <<ToUpper(Head(rs))>> \o camelRunes(Tail(rs), FALSE)
    ELSE <<Head(rs)>> \o camelRunes(Tail(rs), FALSE)

ToCamelCase(s) ==
    IF s = <<>> THEN Ok(<<>>)
    ELSE LET result == camelRunes(Runes(s), FALSE)
         IN  IF result = <<>> THEN Panic
             ELSE Ok(EncodeRunes(<<ToUpper(result[1])>> \o Tail(result)))

RECURSIVE snakeRunes(_)
snakeRunes(rs) ==
    IF rs = <<>> THEN <<>>
    ELSE (IF IsUpper(Head(rs)) THEN <<Underscore>> ELSE <<>>)
         \o EncodeRune(ToLower(Head(rs))) \o snakeRunes(Tail(rs))

ToSnakeCase(s) ==
    IF s = <<>> THEN <<>>
    ELSE EncodeRune(ToLower(s[1])) \o snakeRunes(Runes(Tail(s)))

\* The letters of the field names: A, I, a, d, 1, and the letters E and e
\* with an acute accent.
NameLetters == {65, 73, 97, 100, 49, 201, 233}

\* The field names that start with an uppercase letter.
FieldNames ==
    {rs \in Slices(NameLetters, MaxName) : rs # <<>> /\ IsUpper(rs[1])}

\* ToCamelCase(ToSnakeCase(name)) for a field name
RoundTrip(rs) ==
    /\ out' = [op |-> "ToSnakeCase", runes |-> rs, name |-> EncodeRunes(rs),
               snake |-> ToSnakeCase(EncodeRunes(rs)),
               camel |-> ToCamelCase(ToSnakeCase(EncodeRunes(rs)))]
    /\ UNCHANGED <<dialect, conds, handle>>

NextCase == \E rs \in FieldNames : RoundTrip(rs)

SpecCase == Init({"sqlite3"}) /\ [][NextCase]_vars

-----------------------------------------------------------------------------
(* SpecFrame: Conditions that are built, or passed to Select, more than     *)
(* once, the second of them nested in the first.                            *)

MaxFrameParts == 3

NextFrame ==
    \/ \E c \in Conds : CondWhere(c, MaxFrameParts, {"col", "cond"}, {2})
    \/ \E c \in Conds : CondLimit(c, MaxFrameParts)
    \/ \E c \in Conds : JoinOn(c, MaxFrameParts, {Join}, OnArgsSelect)
    \/ \E c \in Conds : Build(c)
    \/ \E cs \in SelectArgs : Select(cs)

SpecFrame == Init({"postgres"}) /\ [][NextFrame]_vars

-----------------------------------------------------------------------------
(* Properties of the text and the argument list that build returns          *)

\* The texts a placeholder can have: "?" or "$n".
HolderTexts == {"?"} \cup {PostgresPlaceHolder(i) : i \in 0..49}

IsHolder(lx) == lx.text \in HolderTexts

\* The placeholder lexemes of a text, in the order of the text.
Holders(q) == SelectSeq(q, IsHolder)

Built == out.op = "build"

\* C1: the i-th element of the argument list build returns is the value
\* supplied to the clause whose placeholder is the i-th in the SQL text.
C1_ArgsBindInPlaceholderOrder ==
    Built =>
        LET hs == Holders(out.queries)
        IN  \A i \in DOMAIN hs \cap DOMAIN out.args : out.args[i] = hs[i].binds

\* A build whose argument list is not in the order the values were handed
\* over, with a BETWEEN among the clauses.
C1_Witness ==
    /\ Built
    /\ \E i \in DOMAIN out.queries : out.queries[i].text = ClauseString(Between)
    /\ \E i, j \in DOMAIN out.args : i < j /\ out.args[i] > out.args[j]

\* C2: the text build returns has as many placeholders as the argument list
\* has elements, nested Conditions and lists included.
C2_HoldersMatchArgs ==
    Built => Len(Holders(out.queries)) = Len(out.args)

\* A build of a Condition that holds a nested Condition, with values both
\* inside and outside the group.
C2_Witness ==
    /\ Built
    /\ Nested(conds[out.cond].parts) # {}
    /\ \E i, j \in DOMAIN out.args : out.args[i] < 200 /\ out.args[j] > 200

\* C3: under the PostgreSQL dialect the N-th placeholder of the text carries
\* the numeral N, also when a nested Condition is followed by clauses that
\* take values.
C3_PostgresNumeralsCountUp ==
    (Built /\ dialect = "postgres") =>
        LET hs == Holders(out.queries)
        IN  \A n \in DOMAIN hs : hs[n].text = PostgresPlaceHolder(n - 1)

\* The texts of the lexemes of q.
TextOf(q) == [i \in DOMAIN q |-> q[i].text]

\* The part of ps with clause cl, when there is exactly one.
PartOf(ps, cl) == ps[CHOOSE i \in DOMAIN ps : ps[i].clause = cl]

\* ps is one Where comparison, one OrderBy, one Limit and one Offset.
OneOfEach(ps) ==
    /\ Len(ps) = 4
    /\ \A cl \in {Where, OrderBy, Limit, Offset} : \E i \in DOMAIN ps : ps[i].clause = cl
    /\ PartOf(ps, Where).expr.k = "expr"

\* C5: whatever the order in which one Where, one OrderBy, one Limit and one
\* Offset were called, the text is WHERE ... ORDER BY ... LIMIT ... OFFSET ...
\* and the argument list is the Where value, the Limit value, the Offset value.
C5_CallOrderDoesNotMatter ==
    (Built /\ OneOfEach(conds[out.cond].parts)) =>
        LET ps == conds[out.cond].parts
            w == PartOf(ps, Where).expr
            o == PartOf(ps, OrderBy).expr
            l == PartOf(ps, Limit).expr
            f == PartOf(ps, Offset).expr
        IN  /\ TextOf(out.queries) =
                   <<"WHERE", ColumnName(dialect, w.column.table, w.column.name),
                     Text(w.op), PlaceHolder(dialect, 0), "ORDER BY">>
                   \o TextOf(orderTerms(dialect, o.list))
                   \o <<"LIMIT", PlaceHolder(dialect, 1),
                        "OFFSET", PlaceHolder(dialect, 2)>>
            /\ out.args = <<w.value, l.value, f.value>>

\* A build of the four clauses where Where was called after Offset and Limit
\* after Offset.
C5_Witness ==
    /\ Built
    /\ OneOfEach(conds[out.cond].parts)
    /\ out.args[1] > out.args[3]
    /\ out.args[2] > out.args[3]

\* A stable sort of ps by priority: for each priority in ascending order, the
\* parts of that priority in the order they have in ps.
RECURSIVE StableFrom(_, _)
StableFrom(ps, S) ==
    IF S = {} THEN <<>>
    ELSE LET lo == CHOOSE x \in S : \A y \in S : x <= y
         IN  SelectSeq(ps, LAMBDA p : p.priority = lo) \o StableFrom(ps, S \ {lo})

StableSort(ps) == StableFrom(ps, {ps[i].priority : i \in DOMAIN ps})

\* C6: build leaves the parts in the order of a stable sort by priority:
\* parts of equal priority stay in the order in which they were added.
C6_BuildSortsStably ==
    [][\A c \in Conds :
          (out'.op = "build" /\ out'.cond = c) =>
              conds'[c].parts = StableSort(conds[c].parts)]_vars

\* The clauses chained onto a column.
Chained == {In, Like, Between, IsNull, IsNotNull}

\* C7: a part In/Like/Between/IsNull/IsNotNull that was added right after a
\* bare column is, after build has ordered the parts it writes, still right
\* after that column.
C7_ChainedFragmentFollowsItsColumn ==
    [][\A c \in Conds :
          (out'.op = "build" /\ out'.cond = c) =>
              \A j \in 2..Len(conds[c].parts) :
                  (/\ conds[c].parts[j].clause \in Chained
                   /\ conds[c].parts[j - 1].expr.k = "column") =>
                      \E k \in 2..Len(conds'[c].parts) :
                          /\ conds'[c].parts[k] = conds[c].parts[j]
                          /\ conds'[c].parts[k - 1] = conds[c].parts[j - 1]]_vars

\* How many groups are open before lexeme i of q.
Depth(q, i) ==
    Cardinality({j \in 1..(i - 1) : q[j].text = "("})
    - Cardinality({j \in 1..(i - 1) : q[j].text = ")"})

\* Condition 1 is Where(x op v1).Or(Condition 2) and Condition 2 is
\* Where(y op v2).And(z op v3).
NestedOrExample ==
    /\ Len(conds[1].parts) = 2 /\ Len(conds[2].parts) = 2
    /\ conds[1].parts[1].clause = Where /\ conds[1].parts[1].expr.k = "expr"
    /\ conds[1].parts[2].clause = Or /\ conds[1].parts[2].expr = CondE(2)
    /\ conds[2].parts[1].clause = Where /\ conds[2].parts[1].expr.k = "expr"
    /\ conds[2].parts[2].clause = And /\ conds[2].parts[2].expr.k = "expr"

\* The text of a comparison, its placeholder numbered n.
ExprText(d, e, n) ==
    <<ColumnName(d, e.column.table, e.column.name), Text(e.op), PlaceHolder(d, n)>>

\* C8: a nested Condition is written as one group in parentheses, with no
\* WHERE inside it; Where(x = v1).Or(Where(y = v2).And(z = v3)) compiles to
\* WHERE x = ? OR ( y = ? AND z = ? ) with the arguments v1, v2, v3.
C8_NestedGroup ==
    Built =>
        /\ \A i \in DOMAIN out.queries :
              out.queries[i].text = "WHERE" => Depth(out.queries, i) = 0
        /\ (out.cond = 1 /\ NestedOrExample) =>
              LET e1 == conds[1].parts[1].expr
                  e2 == conds[2].parts[1].expr
                  e3 == conds[2].parts[2].expr
              IN  /\ TextOf(out.queries) =
                         <<"WHERE">> \o ExprText(dialect, e1, 0) \o <<"OR", "(">>
                         \o ExprText(dialect, e2, 1) \o <<"AND">>
                         \o ExprText(dialect, e3, 2) \o <<")">>
                  /\ out.args = <<e1.value, e2.value, e3.value>>

\* The example has been built.
C8_Witness == Built /\ out.cond = 1 /\ NestedOrExample /\ dialect = "sqlite3"

\* The other way of handing the same values to In: each value as an argument
\* of its own instead of one slice, one slice instead of the values.
OtherForm(items) ==
    IF Len(items) = 1 /\ items[1].slice
    THEN [i \in DOMAIN items[1].elems |-> One(items[1].elems[i])]
    ELSE <<Slice([i \in DOMAIN items |-> items[i].v])>>

Repack(p) == IF p.expr.k = "list" THEN [p EXCEPT !.expr.items = OtherForm(@)] ELSE p

\* The heap h with every In list handed over the other way.
Repacked(h) ==
    [x \in Conds |-> [h[x] EXCEPT !.parts = [i \in DOMAIN h[x].parts |-> Repack(h[x].parts[i])]]]

\* C10: In(v1, ..., vn) and In of one slice holding v1, ..., vn compile to
\* the same text and the same argument list.
C10_InListForms ==
    Built =>
        \A impl \in SortImpls :
            LET b == build(dialect, impl, Repacked(conds), out.cond, 0, FALSE)
            IN  b.queries = out.queries /\ b.args = out.args

\* A build with an In that was given a slice, and one with an In that was
\* given the values, in one Condition.
C10_Witness ==
    /\ Built
    /\ LET ps == conds[out.cond].parts
       IN  /\ \E i \in DOMAIN ps : ps[i].expr.k = "list" /\ Len(ps[i].expr.items) = 1
           /\ \E i \in DOMAIN ps : ps[i].expr.k = "list" /\ Len(ps[i].expr.items) = 2

-----------------------------------------------------------------------------
(* Properties of the statement Select compiles                             *)

Selected == out.op = "select"

\* C4: in a Select with several Conditions under the PostgreSQL dialect the
\* placeholder numerals run on across the Conditions: the N-th placeholder
\* of the statement carries the numeral N.
C4_SelectNumeralsRunOn ==
    (Selected /\ dialect = "postgres") =>
        LET hs == Holders(out.queries)
        IN  \A n \in DOMAIN hs : hs[n].text = PostgresPlaceHolder(n - 1)

\* C9: every join of the statement is the keyword, the table and an ON
\* predicate, and no WHERE comes before a join.
C9_JoinsBeforeWhere ==
    Selected =>
        LET q == out.queries
        IN  \A i \in DOMAIN q :
                q[i].text \in {ClauseString(Join), ClauseString(LeftJoin)} =>
                    /\ i + 2 <= Len(q)
                    /\ q[i + 1].text = Quote(dialect, T2)
                    /\ q[i + 2].text = "ON"
                    /\ \A j \in 1..(i - 1) : q[j].text # ClauseString(Where)

-----------------------------------------------------------------------------
(* Properties of Insert, Update and Delete and their hooks                  *)

BeforeHooks == {"BeforeInsert", "BeforeUpdate", "BeforeDelete"}
AfterHooks == {"AfterInsert", "AfterUpdate", "AfterDelete"}
SQLEvents == {"prepare", "exec", "query"}

\* The last call was Insert, Update or Delete and it returned.
Modified == out.op \in {"Insert", "Update", "Delete"} /\ ~out.panicked

\* C11: when a Before hook of an object returns an error, Insert, Update and
\* Delete return that error, no statement is prepared or executed, and no
\* After hook is called.
C11_BeforeHookErrorStopsTheCall ==
    Modified =>
        \A i \in DOMAIN out.events :
            (out.events[i].e \in BeforeHooks /\ ~out.events[i].ok) =>
                /\ out.err = ErrHook(out.events[i].e, out.events[i].obj)
                /\ out.executed = <<>>
                /\ \A j \in DOMAIN out.events :
                       out.events[j].e \notin SQLEvents \cup AfterHooks

C11_Witness ==
    /\ out.op = "Delete" /\ ~out.panicked
    /\ out.arg.kind = "slice" /\ Len(out.arg.objs) = 2
    /\ out.arg.objs[1].before = "ok" /\ out.arg.objs[2].before = "err"
    /\ out.err = ErrHook("BeforeDelete", 2)
    /\ Len(out.events) = 2

\* C12: when an After hook returns an error, the statement has been
\* executed: Insert, Update and Delete return that error with the number of
\* affected rows, and the transaction of the handle, if any, is still open.
C12_AfterHookErrorKeepsTheCount ==
    Modified =>
        \A i \in DOMAIN out.events :
            (out.events[i].e \in AfterHooks /\ ~out.events[i].ok) =>
                /\ out.err = ErrHook(out.events[i].e, out.events[i].obj)
                /\ out.executed # <<>>
                /\ out.affected = out.executed[1].rows
                /\ tx = out.executed[1].on
                /\ tx # 0 => txs[tx] = "open"

C12_Witness ==
    /\ out.op = "Insert" /\ ~out.panicked
    /\ out.err = ErrHook("AfterInsert", 1)
    /\ out.affected = 2
    /\ tx # 0

\* The last call was an Insert or a Delete of a slice, and its statement was
\* executed.
BulkExecuted ==
    /\ out.op \in {"Insert", "Delete"} /\ ~out.panicked
    /\ out.arg.kind = "slice"
    /\ out.executed # <<>>

\* The elements of objs that have the hook, in input order.
WithHook(objs, which) ==
    LET Has(i) == objs[i][which] # "none"
    IN  SelectSeq([i \in 1..Len(objs) |-> i], Has)

\* The objects that the hooks of the set names were called on, in call order.
CalledOn(events, names) ==
    LET Is(ev) == ev.e \in names
        hooks == SelectSeq(events, Is)
    IN  [k \in 1..Len(hooks) |-> hooks[k].obj]

\* Every Before hook is called before the statement and every After hook
\* after it.
HooksAroundStatement(events) ==
    \A i, j \in DOMAIN events :
        /\ (events[i].e \in BeforeHooks /\ events[j].e \in SQLEvents) => i < j
        /\ (events[i].e \in SQLEvents /\ events[j].e \in AfterHooks) => i < j

\* C13: in a bulk Insert or Delete whose statement executes, the
\* Before hook and the After hook of every element are called exactly once,
\* in input order, the Before hooks before the statement and the After hooks
\* after it, whichever After hooks return errors.
C13_EveryHookOnceInOrder ==
    BulkExecuted =>
        /\ CalledOn(out.events, BeforeHooks) = WithHook(out.arg.objs, "before")
        /\ CalledOn(out.events, AfterHooks) = WithHook(out.arg.objs, "after")
        /\ HooksAroundStatement(out.events)

\* What the code does: the Before hook of every element is called exactly
\* once, in input order, before the statement; the After hooks are called
\* after the statement in input order, each at most once, up to the first
\* one that returns an error.  The After hooks of the elements behind that
\* one are not called, and none is called when the id of the one inserted
\* row cannot be read.
AfterHooksUpToFirstError ==
    BulkExecuted =>
        LET afters == CalledOn(out.events, AfterHooks)
            all == WithHook(out.arg.objs, "after")
            failed(k) == out.arg.objs[afters[k]].after = "err"
        IN  /\ CalledOn(out.events, BeforeHooks) = WithHook(out.arg.objs, "before")
            /\ HooksAroundStatement(out.events)
            /\ Len(afters) <= Len(all)
            /\ \A k \in DOMAIN afters : afters[k] = all[k]
            /\ \A k \in DOMAIN afters : failed(k) <=> (k = Len(afters) /\ out.err # NoErr)
            /\ Len(afters) < Len(all) =>
                   \/ Len(afters) > 0 /\ failed(Len(afters))
                   \/ \E i \in DOMAIN out.events :
                          out.events[i].e = "query" /\ ~out.events[i].ok

\* The struct type has a field with the pk tag, directly or in an embedded
\* struct.
RECURSIVE HasPkField(_)
HasPkField(typ) ==
    \E i \in DOMAIN typ :
        IF typ[i].anonymous THEN HasPkField(typ[i].typ) ELSE typ[i].pk

\* The last call was Update or Delete with a struct, a pointer to a struct
\* or a slice of structs of a type without primary key.
WithoutPk ==
    /\ out.op \in {"Update", "Delete"}
    /\ out.arg.kind \in {"ptr", "struct", "slice"}
    /\ ~HasPkField(out.arg.typ)

ErrorAndNoSQL ==
    /\ ~out.panicked
    /\ out.err # NoErr
    /\ out.executed = <<>>
    /\ \A i \in DOMAIN out.events : out.events[i].e \notin SQLEvents

\* C14: Update and Delete on a struct type without a field tagged
\* pk, directly or in an embedded struct, return an error and prepare and
\* execute no statement.
C14_NoPrimaryKeyIsAnError == WithoutPk => ErrorAndNoSQL

\* What the code does: Update and Delete of at least one object of a struct
\* type without a field tagged pk return an error and prepare and execute
\* no statement; Delete of an empty slice returns 0 and no error, whatever
\* the type, and prepares no statement either.
NoPrimaryKeyIsAnErrorForAnObject ==
    WithoutPk =>
        IF Len(out.arg.objs) >= 1 THEN ErrorAndNoSQL
        ELSE /\ ~out.panicked
             /\ out.executed = <<>> /\ out.events = <<>>
             /\ out.op = "Delete" => (out.err = NoErr /\ out.affected = 0)

-----------------------------------------------------------------------------
(* Properties of the transaction of the handle                              *)

\* The step is a call of Commit or Rollback.
EndCall == out'.op \in {"Commit", "Rollback"}

\* C15: Commit and Rollback on a handle without a transaction return
\* ErrTxDone: they do not panic and they make no call of the driver, so no
\* transaction changes.
C15_EndWithoutTransaction ==
    [][(EndCall /\ tx = 0) =>
           /\ out'.err = ErrTxDone
           /\ ~out'.panicked
           /\ out'.events = <<>>
           /\ UNCHANGED <<tx, txs>>]_vars

\* Rollback has returned ErrTxDone on a handle that had a transaction
\* before, which is over.
C15_Witness ==
    /\ out.op = "Rollback" /\ out.err = ErrTxDone
    /\ tx = 0 /\ Len(txs) = 1 /\ txs[1] = "commit"

\* C16: a Commit or Rollback that finds a transaction ends it and leaves
\* the handle without one, whether the driver returns an error or not; the
\* handle stays without one until Begin, and a Commit or Rollback that
\* follows another returns ErrTxDone.
C16_EndLeavesNoTransaction ==
    [][/\ (EndCall /\ tx # 0) =>
              /\ tx' = 0
              /\ txs'[tx] # "open"
              /\ out'.err \in {NoErr, ErrDriver}
       /\ (tx = 0 /\ out'.op # "Begin") => tx' = 0
       /\ (EndCall /\ out.op \in {"Commit", "Rollback"}) => out'.err = ErrTxDone]_vars

\* The driver has failed to commit: the handle holds no transaction.
C16_Witness ==
    /\ out.op = "Commit" /\ out.err = ErrDriver
    /\ out.events = <<Ev("commit", 0, FALSE, 1)>>
    /\ tx = 0 /\ txs = <<"failed">>

\* C17: of the transactions begun through the handle, at most one is
\* neither committed nor rolled back.
C17_AtMostOneTransaction == Cardinality(OpenTxs(txs)) <= 1

\* The last call was one that prepares a statement.
Prepared ==
    /\ out.op \in {"Select", "Insert", "Update", "Delete", "LastInsertId"}
    /\ ~out.panicked

\* C19: a statement is prepared on the transaction that was begun on the
\* handle and is not committed or rolled back yet, and on the database
\* itself when there is no such transaction.
C19_PreparedOnTheTransaction ==
    Prepared =>
        \A i \in DOMAIN out.events :
            out.events[i].e = "prepare" =>
                /\ OpenTxs(txs) = {} => out.events[i].on = 0
                /\ \A t \in OpenTxs(txs) : out.events[i].on = t

\* The next step of the goroutine reads or writes db.tx.
Accesses(t) == pc[t].at \in {"store", "test", "end", "clear"}

\* C18: a goroutine that is about to read or write db.tx in Begin, Commit,
\* Rollback or prepare holds the mutex, and the transaction that Commit or
\* Rollback found is still the one in db.tx when they end it and when they
\* clear db.tx.
C18_TxAccessedUnderMutex ==
    \A t \in Threads :
        /\ Accesses(t) => m = t
        /\ pc[t].at \in {"end", "clear"} => (tx # 0 /\ tx = local[t])

\* A goroutine is in the middle of Commit while the other has begun a
\* transaction and waits for the mutex to store it.
C18_Witness ==
    /\ pc[1] = At("Commit", "clear") /\ m = 1
    /\ pc[2] = At("Begin", "lock")
    /\ tx = 1 /\ local[2] = 2

-----------------------------------------------------------------------------
(* Properties of the public entry points                                    *)

\* A panic inside Select has been recovered and returned as an error.
C20_SelectRecovered ==
    out.op = "Select" /\ out.arg.column = "badcolumn" /\ out.err = ErrPanic

\* C20: whatever the argument, Select, Insert, Update and Delete return to
\* the caller: no panic leaves them.
C20_EntryPointsReturn ==
    out.op \in {"Select", "Insert", "Update", "Delete"} => ~out.panicked

-----------------------------------------------------------------------------
(* Properties of the argument list of Select                                *)

\* The last call was Select with an argument list.
SelectedWith == out.op = "Select" /\ "args" \in DOMAIN out.arg

\* The argument list breaks a rule of classification: an argument of a type
\* that is not supported, more than one From, or a function or a column
\* selector behind the first position.
Violation(args) ==
    \/ \E i \in DOMAIN args : args[i] = "int"
    \/ \E i, j \in DOMAIN args : i # j /\ args[i] = "*From" /\ args[j] = "*From"
    \/ \E i \in DOMAIN args :
           /\ i > 1
           /\ args[i] \in {"string", "[]string", "*Distinct", "*Function", "*Function(42)"}

-----------------------------------------------------------------------------
(* Properties of the clause methods called with too few or too many         *)
(* arguments                                                                *)

\* C22: a call of Where, And, Or, OrderBy or On with an argument list of
\* none of the documented shapes panics and adds nothing to a Condition:
\* every column of every Condition is a column name, with or without the
\* table of a struct, and never an operator taken for a column.
C22_MalformedCallsPanic ==
    \A c \in Conds : \A i \in DOMAIN conds[c].parts :
        LET e == conds[c].parts[i].expr
        IN  e.k = "column" => (e.name \in {ColA, ColB} /\ e.table \in {<<>>, T2})

-----------------------------------------------------------------------------
(* Properties of the index paths                                            *)

\* reflect.Type.FieldByIndex: the field that the index path leads to from
\* the root struct, if it leads to one.
RECURSIVE Follow(_, _)
Follow(typ, path) ==
    IF path = <<>> \/ path[1] + 1 > Len(typ) THEN [ok |-> FALSE]
    ELSE IF Len(path) = 1 THEN [ok |-> TRUE, field |-> typ[path[1] + 1]]
    ELSE IF ~typ[path[1] + 1].anonymous THEN [ok |-> FALSE]
    ELSE Follow(typ[path[1] + 1].typ, Tail(path))

\* A search has found a field.
Found == out.op \in {"fieldIndexByName", "findPKIndex"} /\ out.index # <<>>

\* C23: the index path that fieldIndexByName and findPKIndex return is the
\* sequence of field positions from the root struct to the field found, at
\* any depth of embedding: following it from the root reaches the field
\* with the column name, or the field with the pk tag.
C23_IndexPathLeadsToTheField ==
    Found =>
        LET f == Follow(out.typ, out.index)
        IN  /\ f.ok
            /\ out.op = "fieldIndexByName" => columnFromTag(f.field) = out.name
            /\ out.op = "findPKIndex" => (~f.field.anonymous /\ hasPKTag(f.field))

\* C24: the search for a column never finds a field that is not exported.
C24_UnexportedFieldsAreSkipped ==
    (Found /\ out.op = "fieldIndexByName") =>
        LET f == Follow(out.typ, out.index)
        IN  f.ok => ~IsUnexportedField(f.field)

-----------------------------------------------------------------------------
(* Properties of Quote                                                      *)

\* The quote character of the dialect.
QuoteChar(d) == IF d = "mysql" THEN BackQuote ELSE "\""

\* The characters of a text.
Chars(q) == [i \in 1..Len(q) |-> SubSeq(q, i, i)]

\* The identifier that the characters between the outer quotes stand for,
\* every pair of quote characters read as one, or Panic when a quote
\* character stands alone.
RECURSIVE Undouble(_, _)
Undouble(cs, qc) ==
    IF cs = <<>> THEN Ok(<<>>)
    ELSE IF Head(cs) # qc
    THEN LET r == Undouble(Tail(cs), qc)
         IN  IF r.ok THEN Ok(<<Head(cs)>> \o r.val) ELSE Panic
    ELSE IF Len(cs) < 2 \/ cs[2] # qc THEN Panic
    ELSE LET r == Undouble(Tail(Tail(cs)), qc)
         IN  IF r.ok THEN Ok(<<qc>> \o r.val) ELSE Panic

Unquote(q, qc) ==
    LET cs == Chars(q)
    IN  IF Len(cs) < 2 \/ cs[1] # qc \/ cs[Len(cs)] # qc THEN Panic
        ELSE Undouble(SubSeq(cs, 2, Len(cs) - 1), qc)

\* C25: Quote(s) is s between two quote characters of the dialect with every
\* quote character of s doubled, so that s can be read back from it; two
\* different identifiers have different quoted texts, and the empty
\* identifier is quoted as two quote characters.
C25_QuoteDoublesTheQuoteCharacter ==
    out.op = "Quote" =>
        LET qc == QuoteChar(dialect)
            r == Unquote(out.qs, qc)
        IN  /\ r.ok /\ r.val = out.s
            /\ out.s # out.t => out.qs # out.qt
            /\ out.s = <<>> => out.qs = qc \o qc

\* An identifier that is a quote character and one that is two of them.
C25_Witness ==
    /\ out.op = "Quote"
    /\ out.s = <<QuoteChar(dialect)>> /\ out.t = <<QuoteChar(dialect), QuoteChar(dialect)>>
    /\ Len(out.qs) = 4 /\ Len(out.qt) = 6

-----------------------------------------------------------------------------
(* Properties of ToSnakeCase and ToCamelCase                                *)

\* C26: for every field name that starts with an uppercase letter and has no
\* underscore, ToCamelCase(ToSnakeCase(name)) is the name.
C26_CamelOfSnakeIsTheName ==
    out.op = "ToSnakeCase" => out.camel = Ok(out.name)

\* The round trip gives the name back when its first letter is an ASCII
\* letter.
CamelOfSnakeOfAnASCIIInitial ==
    (out.op = "ToSnakeCase" /\ out.runes[1] < 128) => out.camel = Ok(out.name)

\* UID becomes u_i_d: no handling of runs of uppercase letters.
SnakeOfAnAcronym ==
    (out.op = "ToSnakeCase" /\ out.runes = <<73, 73, 100>>)
        => out.snake = <<105, Underscore, 105, 100>>

-----------------------------------------------------------------------------
(* Properties of preparation and execution by concurrent callers            *)

\* C27: a statement that was prepared on the active transaction of the
\* handle is executed while that transaction is still active.
C27_ExecutedInTheActiveTransaction ==
    (out.op = "Exec" /\ out.on # 0) => out.active

\* C27, amended: while DB.prepare prepares a statement and until it returns,
\* the goroutine holds the mutex, the transaction the statement is prepared
\* on is the one in db.tx, and it is neither committed nor rolled back; no
\* Commit or Rollback of another goroutine is past db.m.Lock() then.
C27_PreparedInTheActiveTransaction ==
    \A t \in Threads :
        (pc[t].op \in ExecCalls /\ pc[t].at = "prepared") =>
            /\ m = t /\ local[t] = tx
            /\ local[t] # 0 => txs[local[t]] = "open"
            /\ \A u \in Threads \ {t} :
                   pc[u].op \in {"Commit", "Rollback"} => pc[u].at = "lock"

\* A statement is prepared on the transaction while the other goroutine
\* waits for the mutex in Commit.
C27_Witness ==
    /\ pc[1] = At("Update", "prepared") /\ local[1] = 1 /\ txs[1] = "open"
    /\ pc[2] = At("Commit", "lock")

-----------------------------------------------------------------------------
(* Properties of the primary key that Insert sets                           *)

\* C28: after a successful Insert of a single object with an
\* autoincrementable primary key, the primary key of the object is the key
\* of the row that this call inserted; a bulk Insert leaves the primary keys
\* of its objects as they were.
C28_InsertSetsItsOwnKey ==
    (out.op = "Insert" /\ out.err = NoErr) =>
        /\ (out.n = 1 /\ out.auto) => out.pks = <<out.key>>
        /\ out.n > 1 => out.pks = ZeroKeys(out.n)

\* The primary key that a successful Insert of a single object sets is the
\* key of a row of the table that is not older than the row of the call.
InsertSetsAKeyNotOlderThanItsOwn ==
    (out.op = "Insert" /\ out.err = NoErr /\ out.n = 1 /\ out.auto) =>
        /\ out.pks[1] \in out.key..Len(stmts)
        /\ out.pks[1] # out.key => stmts[out.pks[1]].by # out.by

-----------------------------------------------------------------------------
(* Properties of building a Condition more than once                        *)

\* What build(0, false) of Condition x returns in heap h.
Compiled(h, x, impl) ==
    LET b == build(dialect, impl, h, x, 0, FALSE)
    IN  [queries |-> b.queries, args |-> b.args]

\* The heap h with the table names that classify has set in heap g.
Named2(h, g) == [x \in Conds |-> [h[x] EXCEPT !.tableName = g[x].tableName]]

\* c.build(0, false): every Condition that build reached compiles to the
\* same text and arguments after the call as before it, and c to what the
\* call returned.
BuildFrame ==
    out'.op = "build" =>
        \A impl \in SortImpls :
            /\ \A x \in Reach(conds, out'.cond) :
                   Compiled(conds', x, impl) = Compiled(conds, x, impl)
            /\ Compiled(conds', out'.cond, impl)
                   = [queries |-> out'.queries, args |-> out'.args]

\* db.Select(&[]T1{}, cs...): with the table name that classify gives to the
\* Conditions of cs, every Condition it built compiles to the same text and arguments
\* after the call as before it, and the same Select returns the same
\* statement again.
SelectFrame ==
    \A cs \in SelectArgs :
        (out'.op = "select" /\ Select(cs)) =>
            \A impl \in SortImpls :
                /\ \A i \in DOMAIN cs : \A x \in Reach(conds, cs[i]) :
                       Compiled(conds', x, impl) = Compiled(Named2(conds, conds'), x, impl)
                /\ LET b == selectBuild(dialect, impl, classify(conds', T1, cs).heap, cs)
                   IN  /\ SubSeq(out'.queries, 5, Len(out'.queries)) = b.queries
                       /\ out'.args = b.args
                       /\ b.heap = conds'

-----------------------------------------------------------------------------
(* Properties of the failure of Update and Delete without a primary key     *)

\* C30: when Update or Delete fails because the struct type has no primary
\* key, no hook of the objects was called, so that no field of them is
\* changed.
C30_NoHookWithoutPrimaryKey ==
    (WithoutPk /\ ~out.panicked /\ out.err = ErrUsage) => out.events = <<>>

====
